---- MODULE Spec2Model ----
(***************************************************************************)
(* A model of playbookd: the PlaybookManager (manager.go), the Playbook    *)
(* statistics and lifecycle predicates (playbook.go), the FileStore        *)
(* (store) and the part of the BleveIndexer the manager relies on.         *)
(*                                                                         *)
(* Every manager call is one atomic step over the store and the index; the *)
(* failures it can meet (embedding provider, store, indexer) are inputs.   *)
(*                                                                         *)
(* Spec       : Create, Update, Delete, RecordExecution and Reindex with   *)
(*              failures.                                                  *)
(* SpecRecord : Create and RecordExecution, up to MaxExec executions.      *)
(* SpecLife   : RecordExecution, ApplyReflection, Prune, Reindex on        *)
(*              playbooks of every status.                                 *)
(* SpecReflect: ApplyReflection, alone and inside RecordExecution.         *)
(* SpecStats  : the manager's writes with caller-supplied statistics.      *)
(* SpecSearch : one Search or SearchWithContext over a store and an index. *)
(* SpecWilson : UpdateStats over the histories of one playbook.            *)
(* SpecList   : the listings of the FileStore over a damaged directory.    *)
(* SpecRace   : RecordExecution, Prune and Delete interleaved, store call  *)
(*              by store call.                                             *)
(* SpecStore  : the FileStore seen from inside: goroutines taking the      *)
(*              RWMutex, atomicWriteJSON step by step, process crashes.    *)
(* SpecStoreFair: SpecStore without crashes, under fair scheduling.        *)
(***************************************************************************)
EXTENDS Integers, Sequences, FiniteSets, TLC

\* ---------------------------------------------------------------- bounds
MaxExec == 5
MaxRecorded == 2
MaxVersion == 3
MaxTime == 3
MaxLessons == 3
MaxLifeLessons == 1
NumExecIds == 2
NumProcs == 2
MaxDoc == 2
MaxTemps == 1
MaxScore == 3
MaxSuccesses == 15
MaxFailures == 6

\* The playbook ids of the model. A call touches only the documents of the id
\* it names, and the sweeps (Prune, Reindex) treat each playbook on its own.
Ids == {1}
ExecIds == 1..NumExecIds

\* ------------------------------------------------------------- playbook.go
StatusNone == ""
StatusDraft == "draft"
StatusActive == "active"
StatusDeprecated == "deprecated"
StatusArchived == "archived"
Statuses == {StatusNone, StatusDraft, StatusActive, StatusDeprecated, StatusArchived}

OutcomeSuccess == "success"
OutcomePartial == "partial"
OutcomeFailure == "failure"
Outcomes == {OutcomeSuccess, OutcomePartial, OutcomeFailure}

\* A float64 ratio of two small integers is kept as the exact fraction
\* <<numerator, denominator>> in lowest terms; 0 is <<0, 1>>.
RECURSIVE Gcd(_, _)
Gcd(a, b) == IF b = 0 THEN a ELSE Gcd(b, a % b)

Ratio(a, b) == LET g == Gcd(a, b) IN <<a \div g, b \div g>>

RatioLess(r, q) == r[1] * q[2] < q[1] * r[2]

\* floor(sqrt(x)) by Newton's iteration.
RECURSIVE IsqrtIter(_, _)
IsqrtIter(x, r) ==
    LET r2 == (r + x \div r) \div 2
    IN  IF r2 >= r THEN r ELSE IsqrtIter(x, r2)

Isqrt(x) == IF x = 0 THEN 0 ELSE IsqrtIter(x, x)

\* The success rate taken for the confidence.
WilsonConfidenceAsRate(successes, failures) ==
    IF successes + failures = 0 THEN 0
    ELSE (successes * 1000) \div (successes + failures)

\* WilsonConfidence in thousandths, z = 1.96 = 49/25:
\*   (p + z^2/2n - z*sqrt(p(1-p)/n + z^2/4n^2)) / (1 + z^2/n)
\* = (1250 s + 2401 - 49 sqrt((2500 s f + 2401 n)/n)) / (1250 n + 4802)
\* The root is taken in hundredths and rounded up, the quotient rounded down:
\* the result is the float64 value rounded down to thousandths, at most one
\* thousandth below it. The products stay within 32 bits for histories of a
\* hundred executions: the quotients are taken digit by digit.
WilsonConfidence(successes, failures) ==
    LET n == successes + failures
        q == 2500 * successes * failures + 2401 * n
        m == (q \div n) * 10000 + ((q % n) * 10000) \div n
        r == Isqrt(m)
        root == IF r * r = m /\ ((q % n) * 10000) % n = 0 THEN r ELSE r + 1
        num == 125000 * successes + 240100 - 49 * root
        den == 125000 * n + 480200
        r1 == (num % den) * 10
        r2 == (r1 % den) * 10
        r3 == (r2 % den) * 10
    IN  IF n = 0 THEN 0
        ELSE (num \div den) * 1000 + (r1 \div den) * 100 + (r2 \div den) * 10 + r3 \div den

\* An UpdateStats that takes the confidence with successes and failures
\* exchanged.
UpdateStatsExchanged(pb) ==
    LET total == pb.successCount + pb.failureCount
    IN  IF total = 0
        THEN [pb EXCEPT !.successRate = <<0, 1>>, !.confidence = 0]
        ELSE [pb EXCEPT !.successRate = Ratio(pb.successCount, total),
                        !.confidence = WilsonConfidence(pb.failureCount, pb.successCount)]

UpdateStats(pb) ==
    LET total == pb.successCount + pb.failureCount
    IN  IF total = 0
        THEN [pb EXCEPT !.successRate = <<0, 1>>, !.confidence = 0]
        ELSE [pb EXCEPT !.successRate = Ratio(pb.successCount, total),
                        !.confidence = WilsonConfidence(pb.successCount, pb.failureCount)]

ShouldPromote(pb) == pb.status = StatusDraft /\ pb.successCount >= 3

ShouldDeprecate(pb, failureThreshold) ==
    LET total == pb.successCount + pb.failureCount
    IN  IF total < 5 THEN FALSE ELSE RatioLess(pb.successRate, failureThreshold)

\* The threshold 0.3 the lifecycle rule is documented with.
DeprecationThreshold == <<3, 10>>

\* ------------------------------------------------------------------ state
VARIABLES
    playbooks,   \* store: id -> playbook document (playbooks/<id>.json)
    executions,  \* store: playbook id -> (execution id -> record)
    index,       \* indexer: id -> indexed document
    now,         \* the value time.Now() returns
    autoReflect, \* ManagerConfig.AutoReflect
    last,        \* the last manager call: its name, arguments and result
    deleted,     \* id -> whether Delete(id) has succeeded since the last Create(id)
    found,       \* SpecSearch: the last Search or SearchWithContext and what it returned
    fsys,        \* SpecStore: path -> content of the files under the data directory
    rw,          \* SpecStore: the state of FileStore.mu
    procs        \* SpecStore: each goroutine's call and its position in it

vars == <<playbooks, executions, index, now, autoReflect, last, deleted, found, fsys, rw, procs>>
mgrVars == <<playbooks, executions, index, now, autoReflect, last, deleted, found>>
storeVars == <<fsys, rw, procs>>

\* ------------------------------------------------- the store, as documents
\* What the manager sees of the FileStore: every stored document is whole
\* (SpecStore below looks inside SavePlaybook and atomicWriteJSON).
ZeroTime == 0

ErrNotFound == "not found"

GetPlaybook(pbs, id) ==
    IF id \in DOMAIN pbs THEN [err |-> "", pb |-> pbs[id]] ELSE [err |-> ErrNotFound]

SavePlaybook(pbs, id, pb) ==
    [i \in DOMAIN pbs \cup {id} |-> IF i = id THEN pb ELSE pbs[i]]

DeletePlaybook(pbs, id) == [i \in DOMAIN pbs \ {id} |-> pbs[i]]

SaveExecution(execs, pid, eid, rec) ==
    [execs EXCEPT ![pid] =
        [e \in DOMAIN execs[pid] \cup {eid} |-> IF e = eid THEN rec ELSE execs[pid][e]]]

ListExecutions(execs, pid) == {execs[pid][e] : e \in DOMAIN execs[pid]}

NoExecutions == << >>

\* A DeletePlaybook that leaves the execution directory in place.
RemoveExecutionsSkipped(execs, pid) == execs

\* os.RemoveAll(execDir) of DeletePlaybook.
RemoveExecutions(execs, pid) == [execs EXCEPT ![pid] = NoExecutions]

\* A nil ListFilter.Status.
NoStatus == "nil"

\* ListFilter{IncludeArchived: includeArchived}
ListFilter(includeArchived) ==
    [includeArchived |-> includeArchived, status |-> NoStatus,
     category |-> "", tags |-> {}, limit |-> 0]

\* matchesFilter looks at IncludeArchived, Category and Tags, and at no other
\* field of the filter.
matchesFilter(pb, filter) ==
    /\ ~(~filter.includeArchived /\ pb.archived)
    /\ ~(filter.category # "" /\ pb.category # filter.category)
    /\ \A t \in filter.tags : t \in pb.tags

ListPlaybooks(pbs, includeArchived) ==
    {i \in DOMAIN pbs : matchesFilter(pbs[i], ListFilter(includeArchived))}

\* ------------------------------------------------------------ the indexer
playbookToDoc(pb) ==
    [status |-> pb.status, confidence |-> pb.confidence,
     successRate |-> pb.successRate, lessons |-> pb.lessons]

IndexDoc(idx, id, pb) ==
    [i \in DOMAIN idx \cup {id} |-> IF i = id THEN playbookToDoc(pb) ELSE idx[i]]

RemoveDoc(idx, id) == [i \in DOMAIN idx \ {id} |-> idx[i]]

\* ------------------------------------------------------------- manager.go
\* A call meets at most one failure, since the first one ends it. e names the
\* step that fails: "embed" the embedding provider, "store" the store's write
\* of the playbook (or its listing), "index" the indexer, "exec" the write of
\* the execution record, "all" the removal of the execution directory;
\* "none" when every step succeeds.
Result(pbs, execs, idx, err) == [pbs |-> pbs, execs |-> execs, idx |-> idx, err |-> err]

\* A Create that numbers every new playbook 1, whatever version it is handed.
CreatedPlaybookNumberedOne(in) ==
    UpdateStats([in EXCEPT !.version = 1, !.createdAt = now, !.updatedAt = now])

\* Create, lines 114-127: the document as it is before the embedding step.
CreatedPlaybook(in) ==
    UpdateStats([in EXCEPT !.version = IF in.version = 0 THEN 1 ELSE in.version,
                           !.createdAt = now,
                           !.updatedAt = now])

\* A Create that saves the document before it asks for the embedding.
CreateEffectSavedFirst(pbs, execs, idx, id, in, e) ==
    LET pb == CreatedPlaybook(in)
    IN  IF e = "store" THEN Result(pbs, execs, idx, TRUE)
        ELSE IF e \in {"embed", "index"} THEN Result(SavePlaybook(pbs, id, pb), execs, idx, TRUE)
        ELSE Result(SavePlaybook(pbs, id, pb), execs, IndexDoc(idx, id, pb), FALSE)

CreateEffect(pbs, execs, idx, id, in, e) ==
    LET pb == CreatedPlaybook(in)
    IN  IF e = "embed" THEN Result(pbs, execs, idx, TRUE)
        ELSE IF e = "store" THEN Result(pbs, execs, idx, TRUE)
        ELSE IF e = "index" THEN Result(SavePlaybook(pbs, id, pb), execs, idx, TRUE)
        ELSE Result(SavePlaybook(pbs, id, pb), execs, IndexDoc(idx, id, pb), FALSE)

\* An Update that brings the playbook it saves back among the live ones.
UpdatedPlaybookRevived(in) ==
    UpdateStats([in EXCEPT !.version = in.version + 1, !.updatedAt = now,
                           !.archived = FALSE,
                           !.status = IF @ = StatusArchived THEN StatusActive ELSE @])

\* Update, lines 159-161.
\* An Update that saves the statistics as the caller passed them.
UpdatedPlaybookAsPassed(in) ==
    [in EXCEPT !.version = in.version + 1, !.updatedAt = now]

UpdatedPlaybook(in) ==
    UpdateStats([in EXCEPT !.version = in.version + 1, !.updatedAt = now])

UpdateEffect(pbs, execs, idx, id, in, e) ==
    LET pb == UpdatedPlaybook(in)
    IN  IF e = "embed" THEN Result(pbs, execs, idx, TRUE)
        ELSE IF e = "store" THEN Result(pbs, execs, idx, TRUE)
        ELSE IF e = "index" THEN Result(SavePlaybook(pbs, id, pb), execs, idx, TRUE)
        ELSE Result(SavePlaybook(pbs, id, pb), execs, IndexDoc(idx, id, pb), FALSE)

\* Delete; FileStore.DeletePlaybook removes the document, then the execution
\* directory.
\* A Delete that removes the playbook from the index before the store.
DeleteEffectIndexFirst(pbs, execs, idx, id, e) ==
    IF e = "index" THEN Result(pbs, execs, idx, TRUE)
    ELSE IF e = "store" THEN Result(pbs, execs, RemoveDoc(idx, id), TRUE)
    ELSE IF e = "all" THEN Result(DeletePlaybook(pbs, id), execs, RemoveDoc(idx, id), TRUE)
    ELSE Result(DeletePlaybook(pbs, id), RemoveExecutions(execs, id),
                RemoveDoc(idx, id), FALSE)

DeleteEffect(pbs, execs, idx, id, e) ==
    IF e = "store" THEN Result(pbs, execs, idx, TRUE)
    ELSE IF e = "all" THEN Result(DeletePlaybook(pbs, id), execs, idx, TRUE)
    ELSE IF e = "index"
         THEN Result(DeletePlaybook(pbs, id), RemoveExecutions(execs, id), idx, TRUE)
         ELSE Result(DeletePlaybook(pbs, id), RemoveExecutions(execs, id),
                     RemoveDoc(idx, id), FALSE)

\* A RecordExecution that deprecates on ShouldDeprecate alone, whatever the
\* status of the playbook is.
RecordedPlaybookDeprecated(pb, rec) ==
    LET r == UpdateStats([pb EXCEPT
                 !.successCount = IF rec.outcome \in {OutcomeSuccess, OutcomePartial}
                                  THEN @ + 1 ELSE @,
                 !.failureCount = IF rec.outcome = OutcomeFailure THEN @ + 1 ELSE @,
                 !.lastUsedAt = rec.completedAt])
    IN  IF ShouldDeprecate(r, DeprecationThreshold)
        THEN [r EXCEPT !.status = StatusDeprecated] ELSE r

\* A RecordExecution that counts as a new version of the playbook.
RecordedPlaybookNewVersion(pb, rec) ==
    UpdateStats([pb EXCEPT
        !.successCount = IF rec.outcome \in {OutcomeSuccess, OutcomePartial} THEN @ + 1 ELSE @,
        !.failureCount = IF rec.outcome = OutcomeFailure THEN @ + 1 ELSE @,
        !.lastUsedAt = rec.completedAt,
        !.version = @ + 1])

\* A RecordExecution that counts a partial outcome as a failure.
RecordedPlaybookPartialFails(pb, rec) ==
    UpdateStats([pb EXCEPT
        !.successCount = IF rec.outcome = OutcomeSuccess THEN @ + 1 ELSE @,
        !.failureCount = IF rec.outcome \in {OutcomeFailure, OutcomePartial}
                         THEN @ + 1 ELSE @,
        !.lastUsedAt = rec.completedAt])

\* RecordExecution, lines 282-293: the counters, lastUsedAt and the statistics.
RecordedPlaybook(pb, rec) ==
    UpdateStats([pb EXCEPT
        !.successCount = IF rec.outcome \in {OutcomeSuccess, OutcomePartial} THEN @ + 1 ELSE @,
        !.failureCount = IF rec.outcome = OutcomeFailure THEN @ + 1 ELSE @,
        !.lastUsedAt = rec.completedAt])

\* ApplyReflection, lines 328-338: one lesson per improvement, confidence 0.5.
ReflectionLessons(improvements) ==
    [i \in 1..Len(improvements) |-> [content |-> improvements[i], confidence |-> 500]]

\* An ApplyReflection that replaces the lessons by the new ones.
ApplyReflectionEffectReplacing(pbs, execs, idx, id, ref, e) ==
    IF id \notin DOMAIN pbs THEN Result(pbs, execs, idx, TRUE)
    ELSE UpdateEffect(pbs, execs, idx, id,
                      [pbs[id] EXCEPT !.lessons = ReflectionLessons(ref.improvements)], e)

ApplyReflectionEffect(pbs, execs, idx, id, ref, e) ==
    IF id \notin DOMAIN pbs THEN Result(pbs, execs, idx, TRUE)
    ELSE UpdateEffect(pbs, execs, idx, id,
                      [pbs[id] EXCEPT !.lessons = @ \o ReflectionLessons(ref.improvements)], e)

\* A RecordExecution that returns the error of its nested ApplyReflection.
RecordExecutionEffectReflectFatal(pbs, execs, idx, id, eid, rec, e, e2, auto) ==
    IF e = "exec" THEN Result(pbs, execs, idx, TRUE)
    ELSE LET execs1 == SaveExecution(execs, id, eid, [outcome |-> rec.outcome])
         IN  IF id \notin DOMAIN pbs THEN Result(pbs, execs1, idx, TRUE)
             ELSE LET pb == RecordedPlaybook(pbs[id], rec)
                      pbs1 == SavePlaybook(pbs, id, pb)
                      idx1 == IndexDoc(idx, id, pb)
                  IN  IF e = "store" THEN Result(pbs, execs1, idx, TRUE)
                      ELSE IF e = "index" THEN Result(pbs1, execs1, idx, TRUE)
                      ELSE IF auto /\ rec.reflection.present /\ rec.reflection.shouldUpdate
                           THEN ApplyReflectionEffect(pbs1, execs1, idx1, id,
                                                      rec.reflection, e2)
                           ELSE Result(pbs1, execs1, idx1, FALSE)

\* RecordExecution; e2 is the failure met by the nested ApplyReflection, whose
\* error is logged and dropped.
RecordExecutionEffect(pbs, execs, idx, id, eid, rec, e, e2, auto) ==
    IF e = "exec" THEN Result(pbs, execs, idx, TRUE)
    ELSE LET execs1 == SaveExecution(execs, id, eid, [outcome |-> rec.outcome])
         IN  IF id \notin DOMAIN pbs THEN Result(pbs, execs1, idx, TRUE)
             ELSE LET pb == RecordedPlaybook(pbs[id], rec)
                      pbs1 == SavePlaybook(pbs, id, pb)
                      idx1 == IndexDoc(idx, id, pb)
                  IN  IF e = "store" THEN Result(pbs, execs1, idx, TRUE)
                      ELSE IF e = "index" THEN Result(pbs1, execs1, idx, TRUE)
                      ELSE IF auto /\ rec.reflection.present /\ rec.reflection.shouldUpdate
                           THEN LET r == ApplyReflectionEffect(pbs1, execs1, idx1, id,
                                                               rec.reflection, e2)
                                IN  Result(r.pbs, r.execs, r.idx, FALSE)
                           ELSE Result(pbs1, execs1, idx1, FALSE)

\* Prune. cfg.MaxAge defaults to 90 days, one unit of the model's clock;
\* cfg.MinConfidence defaults to 0.3.
DefaultMaxAge == 1
DefaultMinConfidence == 300

\* time.Time.Before; the zero time is before every cutoff Prune computes.
Before(t, u) == IF t = ZeroTime THEN TRUE ELSE t < u

\* A rule set without the staleness rule: only low confidence prunes.
ShouldPruneLowConfidenceOnly(pb, minConfidence, cutoff) ==
    \/ pb.confidence < minConfidence /\ Before(pb.updatedAt, cutoff)
    \/ pb.lastUsedAt = ZeroTime /\ Before(pb.createdAt, cutoff)
                                /\ pb.confidence < minConfidence

ShouldPrune(pb, minConfidence, cutoff) ==
    \/ pb.confidence < minConfidence /\ Before(pb.updatedAt, cutoff)
    \/ pb.lastUsedAt # ZeroTime /\ Before(pb.lastUsedAt, cutoff)
    \/ pb.lastUsedAt = ZeroTime /\ Before(pb.createdAt, cutoff)
                                /\ pb.confidence < minConfidence

\* A Prune that counts the archiving as a new version.
PrunedPlaybookNewVersion(pb) ==
    [pb EXCEPT !.archived = TRUE, !.updatedAt = now, !.version = @ + 1]

\* What Prune does to a playbook it archives, lines 386-387.
PrunedPlaybook(pb) == [pb EXCEPT !.archived = TRUE, !.updatedAt = now]

\* The loop of lines 361-396 from position i of the listing; f is the failure
\* it meets (f.at is the position, f.kind "save" or "remove"), out the IDs
\* reported so far.
RECURSIVE PruneLoop(_, _, _, _, _, _, _)
PruneLoop(pbs, idx, order, i, opts, f, out) ==
    IF i > Len(order) THEN [pbs |-> pbs, idx |-> idx, out |-> out, err |-> FALSE]
    ELSE LET id == order[i]
             pb == pbs[id]
         IN  IF pb.archived THEN PruneLoop(pbs, idx, order, i + 1, opts, f, out)
             ELSE IF ~ShouldPrune(pb, opts.minConfidence, now - opts.maxAge)
                  THEN PruneLoop(pbs, idx, order, i + 1, opts, f, out)
             ELSE IF opts.dryRun
                  THEN PruneLoop(pbs, idx, order, i + 1, opts, f, Append(out, id))
             ELSE LET pbs1 == SavePlaybook(pbs, id, PrunedPlaybook(pb))
                  IN  IF f.at = i /\ f.kind = "save"
                      THEN [pbs |-> pbs, idx |-> idx, out |-> << >>, err |-> TRUE]
                      ELSE IF f.at = i /\ f.kind = "remove"
                      THEN [pbs |-> pbs1, idx |-> idx, out |-> << >>, err |-> TRUE]
                      ELSE PruneLoop(pbs1, RemoveDoc(idx, id), order, i + 1, opts, f,
                                     Append(out, id))

\* Options that never ask for a dry run.
PruneOptsNotDry(o) ==
    [maxAge |-> IF o.maxAge = 0 THEN DefaultMaxAge ELSE o.maxAge,
     minConfidence |-> IF o.minConfidence = 0 THEN DefaultMinConfidence ELSE o.minConfidence,
     dryRun |-> FALSE]

PruneOpts(o) ==
    [maxAge |-> IF o.maxAge = 0 THEN DefaultMaxAge ELSE o.maxAge,
     minConfidence |-> IF o.minConfidence = 0 THEN DefaultMinConfidence ELSE o.minConfidence,
     dryRun |-> o.dryRun]

PruneEffect(pbs, idx, order, o, f) ==
    IF f.kind = "list" THEN [pbs |-> pbs, idx |-> idx, out |-> << >>, err |-> TRUE]
    ELSE PruneLoop(pbs, idx, order, 1, PruneOpts(o), f, << >>)

\* The listings ListPlaybooks can return: the matching ids, by confidence
\* descending (sort.Slice leaves ties in any order).
Listings(pbs, includeArchived) ==
    LET ids == ListPlaybooks(pbs, includeArchived)
    IN  {s \in [1..Cardinality(ids) -> ids] :
            /\ \A i, j \in DOMAIN s : i # j => s[i] # s[j]
            /\ \A i, j \in DOMAIN s : i < j => pbs[s[i]].confidence >= pbs[s[j]].confidence}

\* A batch that replaces the index by the documents of the listed playbooks.
BatchIndexReplacing(idx, pbs, ids) == [i \in ids |-> playbookToDoc(pbs[i])]

\* Reindex: BleveIndexer.Reindex puts every listed playbook in one batch.
RECURSIVE BatchIndex(_, _, _)
BatchIndex(idx, pbs, ids) ==
    IF ids = {} THEN idx
    ELSE LET id == CHOOSE i \in ids : TRUE
         IN  BatchIndex(IndexDoc(idx, id, pbs[id]), pbs, ids \ {id})

\* A Reindex that empties the index before it indexes the listing.
ReindexEffectFromEmpty(pbs, execs, idx, e) ==
    IF e = "store" \/ e = "index" THEN Result(pbs, execs, idx, TRUE)
    ELSE Result(pbs, execs, BatchIndex(<< >>, pbs, ListPlaybooks(pbs, FALSE)), FALSE)

ReindexEffect(pbs, execs, idx, e) ==
    IF e = "store" \/ e = "index" THEN Result(pbs, execs, idx, TRUE)
    ELSE Result(pbs, execs, BatchIndex(idx, pbs, ListPlaybooks(pbs, FALSE)), FALSE)

\* ------------------------------------------------------- inputs of the calls
Blank ==
    [version |-> 0, successCount |-> 0, failureCount |-> 0, successRate |-> <<0, 1>>,
     confidence |-> 0, status |-> StatusNone, archived |-> FALSE, lessons |-> << >>,
     createdAt |-> ZeroTime, updatedAt |-> ZeroTime, lastUsedAt |-> ZeroTime]

NoReflection == [present |-> FALSE, shouldUpdate |-> FALSE, improvements |-> << >>]

Reflection(shouldUpdate, improvements) ==
    [present |-> TRUE, shouldUpdate |-> shouldUpdate, improvements |-> improvements]

\* ---------------------------------------------------- search.go, Search
SearchModeHybrid == "hybrid"
SearchModeBM25 == "bm25"
SearchModeVector == "vector"
SearchModes == {SearchModeHybrid, SearchModeBM25, SearchModeVector}

DefaultSearchLimit == 5

\* A SearchQuery: text and embedding say whether Text is non-empty and whether
\* an embedding comes with the query; minScore counts in the units of the raw
\* scores, confidenceWeight in thousandths.
NoQuery ==
    [text |-> FALSE, embedding |-> FALSE, mode |-> "", minScore |-> 0, limit |-> 0,
     confidenceWeight |-> 0]

\* Scores are exact fractions <<numerator, denominator>>, never negative.
RatioAdd(r, q) == Ratio(r[1] * q[2] + q[1] * r[2], r[2] * q[2])
RatioSub(r, q) == Ratio(r[1] * q[2] - q[1] * r[2], r[2] * q[2])
RatioMul(r, q) == Ratio(r[1] * q[1], r[2] * q[2])
RatioDiv(r, q) == Ratio(r[1] * q[2], r[2] * q[1])
Thousandths(n) == Ratio(n, 1000)

\* Search, lines 195-204: the mode the query reaches the indexer with. The
\* embedding function is called when the query has text and no embedding;
\* e = "embed" is its failure.
CallsEmbed(q) == ~q.embedding /\ q.text

\* A Search that keeps the mode it was asked for when the embedding fails.
QueryModeKept(q, e) == q.mode

QueryMode(q, e) == IF CallsEmbed(q) /\ e = "embed" THEN SearchModeBM25 ELSE q.mode

\* BleveIndexer.Search, lines 136-144.
EffectiveLimit(limit) == IF limit <= 0 THEN DefaultSearchLimit ELSE limit
EffectiveMode(mode) == IF mode = "" THEN SearchModeHybrid ELSE mode

\* The sequences without repetition of at most n elements of S.
Arrangements(S, n) ==
    UNION {{a \in [1..k -> S] : \A i, j \in 1..k : i # j => a[i] # a[j]} : k \in 0..n}

\* results.Hits: what bleve finds for the request. Which documents match the
\* text, and with what scores, is left open: any documents of the index, each
\* once, at most limit of them, best score first.
Hits(idx, limit) ==
    LET n == IF Cardinality(DOMAIN idx) < limit THEN Cardinality(DOMAIN idx) ELSE limit
    IN  UNION {{[i \in 1..Len(a) |-> [id |-> a[i], score |-> <<sc[i], 1>>]] :
                   sc \in {t \in [1..Len(a) -> 1..MaxScore] :
                              \A i, j \in 1..Len(a) : i < j => t[i] >= t[j]}} :
               a \in Arrangements(DOMAIN idx, n)}

\* BleveIndexer.Search, lines 180-189: the hits below MinScore are left out.
AboveMinScore(hits, minScore) ==
    SelectSeq(hits, LAMBDA h : ~(minScore > 0 /\ RatioLess(h.score, <<minScore, 1>>)))

\* A hydration that keeps the hits whose playbook is gone, with an empty
\* playbook.
HydratedUnchecked(pbs, rs) ==
    [i \in 1..Len(rs) |->
        [id |-> rs[i].id, score |-> rs[i].score,
         pb |-> IF rs[i].id \in DOMAIN pbs THEN pbs[rs[i].id] ELSE Blank]]

\* Search, lines 212-222: each hit with the playbook GetPlaybook returns; the
\* hits it returns an error for are skipped.
Hydrated(pbs, rs) ==
    LET kept == SelectSeq(rs, LAMBDA r : GetPlaybook(pbs, r.id).err = "")
    IN  [i \in 1..Len(kept) |->
            [id |-> kept[i].id, score |-> kept[i].score, pb |-> pbs[kept[i].id]]]

\* Search, lines 226-229.
ClampedWeight(w) == IF w > 1000 THEN 1000 ELSE w

\* The least and the greatest score of a non-empty batch, lines 232-240.
MinScoreOf(rs) ==
    rs[CHOOSE i \in 1..Len(rs) : \A j \in 1..Len(rs) : ~RatioLess(rs[j].score, rs[i].score)].score

MaxScoreOf(rs) ==
    rs[CHOOSE i \in 1..Len(rs) : \A j \in 1..Len(rs) : ~RatioLess(rs[i].score, rs[j].score)].score

\* A normalisation without the case of equal scores: 0 for all of them.
normalizeScoreZero(score, min, max) ==
    IF max = min THEN <<0, 1>> ELSE RatioDiv(RatioSub(score, min), RatioSub(max, min))

normalizeScore(score, min, max) ==
    IF max = min THEN <<1, 1>> ELSE RatioDiv(RatioSub(score, min), RatioSub(max, min))

\* Line 245: (1-w)*norm + w*Confidence.
BlendedScore(r, w, min, max) ==
    RatioAdd(RatioMul(Thousandths(1000 - w), normalizeScore(r.score, min, max)),
             RatioMul(Thousandths(w), Thousandths(r.pb.confidence)))

Blended(rs, w) ==
    LET min == MinScoreOf(rs)
        max == MaxScoreOf(rs)
    IN  [i \in 1..Len(rs) |-> [rs[i] EXCEPT !.score = BlendedScore(rs[i], w, min, max)]]

\* sort.Slice by score, greater first: the orders it can leave the batch in
\* (it is not stable, equal scores end in any order).
Sorted(rs) ==
    {[i \in 1..Len(rs) |-> rs[p[i]]] :
        p \in {q \in [1..Len(rs) -> 1..Len(rs)] :
                  /\ \A i, j \in 1..Len(rs) : i # j => q[i] # q[j]
                  /\ \A i, j \in 1..Len(rs) :
                        i < j => ~RatioLess(rs[q[i]].score, rs[q[j]].score)}}

\* A blending that is applied whatever the weight is.
CompositeAlways(rs, w) == IF Len(rs) > 0 THEN Sorted(Blended(rs, ClampedWeight(w))) ELSE {rs}

\* Search, lines 225-251: the lists Search can return for the hydrated hits.
Composite(rs, w) ==
    IF w > 0 /\ Len(rs) > 0 THEN Sorted(Blended(rs, ClampedWeight(w))) ELSE {rs}

\* What Search returns: the mode the indexer ran the query in, the hits it
\* kept, the error and the results. e = "index" is the failure of the index.
SearchReturn(mode, hits, err, results) ==
    [mode |-> mode, hits |-> hits, err |-> err, results |-> results]

SearchOutcomes(pbs, q, e, hits) ==
    LET mode == EffectiveMode(QueryMode(q, e))
        kept == AboveMinScore(hits, q.minScore)
    IN  IF mode \notin SearchModes \/ e = "index"
        THEN {SearchReturn(mode, << >>, TRUE, << >>)}
        ELSE {SearchReturn(mode, kept, FALSE, rs) :
                 rs \in Composite(Hydrated(pbs, kept), q.confidenceWeight)}

\* ------------------------------------------- contrastive search
\* The thresholds, in thousandths like the confidence.
DefaultPositiveMinConfidence == 500
DefaultNegativeMaxConfidence == 300

\* A ContrastiveQuery: the SearchQuery it embeds and its own fields, the
\* thresholds in thousandths.
NoContext ==
    [query |-> NoQuery, positiveMinConfidence |-> 0, negativeMaxConfidence |-> 0,
     includeNeutral |-> FALSE]

\* SearchWithContext, lines 56-61.
PositiveMinConfidence(cq) ==
    IF cq.positiveMinConfidence = 0 THEN DefaultPositiveMinConfidence
    ELSE cq.positiveMinConfidence

NegativeMaxConfidence(cq) ==
    IF cq.negativeMaxConfidence = 0 THEN DefaultNegativeMaxConfidence
    ELSE cq.negativeMaxConfidence

\* Lines 64-67.
OriginalLimit(cq) == IF cq.query.limit = 0 THEN DefaultSearchLimit ELSE cq.query.limit

\* Lines 68-69: the query handed to Search.
ContextQuery(cq) == [cq.query EXCEPT !.limit = OriginalLimit(cq) * 3, !.minScore = 0]

\* Lines 81-92: the arm of the switch a result takes.
IsPositive(r, cq) == r.pb.confidence >= PositiveMinConfidence(cq)

\* A second arm that does not depend on the first.
IsNegativeAlone(r, cq) == r.pb.confidence <= NegativeMaxConfidence(cq)

IsNegative(r, cq) == ~IsPositive(r, cq) /\ r.pb.confidence <= NegativeMaxConfidence(cq)

IsNeutral(r, cq) == ~IsPositive(r, cq) /\ ~IsNegative(r, cq) /\ cq.includeNeutral

\* A cap that keeps every entry.
CappedNever(rs, n) == rs

\* Lines 95-103.
Capped(rs, n) == IF Len(rs) > n THEN SubSeq(rs, 1, n) ELSE rs

\* Lines 95-103 with a negative originalLimit: a group, even an empty one, is
\* longer than the limit, and the slice expression group[:originalLimit]
\* panics (slice bounds out of range).
CapPanics(cq) == OriginalLimit(cq) < 0

PositiveGroup(rs, cq) ==
    Capped(SelectSeq(rs, LAMBDA r : IsPositive(r, cq)), OriginalLimit(cq))

NegativeGroup(rs, cq) ==
    Capped(SelectSeq(rs, LAMBDA r : IsNegative(r, cq)), OriginalLimit(cq))

NeutralGroup(rs, cq) ==
    Capped(SelectSeq(rs, LAMBDA r : IsNeutral(r, cq)), OriginalLimit(cq))

\* The model's bounds on the document of id a call is about to write.
WithinBounds(pbs, id, maxExec) ==
    id \in DOMAIN pbs =>
        /\ pbs[id].version <= MaxVersion
        /\ pbs[id].successCount + pbs[id].failureCount <= maxExec
        /\ Len(pbs[id].lessons) <= MaxLessons

\* The record of a call: its name, the playbook id it names (0 when none),
\* the failure it met, whether it returned an error, the version of the
\* playbook it started from (the one handed to Create or Update, the stored
\* one otherwise, 0 when there is none) and the IDs it returned (Prune).
Called(op, id, fail, err, ver, out) ==
    [op |-> op, id |-> id, fail |-> fail, err |-> err, ver |-> ver, out |-> out]

StoredVersion(id) == IF id \in DOMAIN playbooks THEN playbooks[id].version ELSE 0

\* "yes" once Delete(id) has returned without error, "touched" once an Update
\* or a RecordExecution has named id after that, "no" from the next Create.
Deleted(op, err, was) ==
    IF op = "Create" THEN "no"
    ELSE IF op = "Delete" /\ ~err THEN "yes"
    ELSE IF op \in {"Update", "RecordExecution"} /\ was = "yes" THEN "touched"
    ELSE was

Apply(r, op, id, e, ver, maxExec) ==
    /\ WithinBounds(r.pbs, id, maxExec)
    /\ playbooks' = r.pbs
    /\ executions' = r.execs
    /\ index' = r.idx
    /\ last' = Called(op, id, e, r.err, ver, << >>)
    /\ deleted' = [deleted EXCEPT ![id] = Deleted(op, r.err, @)]
    /\ UNCHANGED <<found, now, autoReflect, fsys, rw, procs>>

\* ---------------------------------------------------------------- the calls
\* Each call draws its arguments from the sets it is given. pb.ID and rec.ID
\* are either given by the caller (any id) or a fresh UUID (an id not in
\* use): in both cases an id of Ids, of eids.
CreateCall(ins, fails, maxExec) ==
    \E id \in Ids, in \in ins, e \in fails :
        Apply(CreateEffect(playbooks, executions, index, id, in, e),
              "Create", id, e, in.version, maxExec)

\* The playbook handed to Update is the stored document (a blank one when
\* there is none) with the status and the archived flag as the caller set them.
\* An Update of the stored playbook with the counters and the derived
\* statistics overwritten by the caller.
UpdateWithCall(stats, fails, maxExec) ==
    \E id \in Ids, st \in stats, e \in fails :
        LET base == IF id \in DOMAIN playbooks THEN playbooks[id] ELSE Blank
            in == [base EXCEPT !.successCount = st.successCount,
                               !.failureCount = st.failureCount,
                               !.successRate = st.successRate,
                               !.confidence = st.confidence]
        IN  Apply(UpdateEffect(playbooks, executions, index, id, in, e),
                  "Update", id, e, in.version, maxExec)

UpdateCall(statuses, flags, fails, maxExec) ==
    \E id \in Ids, st \in statuses, a \in flags, e \in fails :
        LET base == IF id \in DOMAIN playbooks THEN playbooks[id] ELSE Blank
            in == [base EXCEPT !.status = st, !.archived = a]
        IN  Apply(UpdateEffect(playbooks, executions, index, id, in, e),
                  "Update", id, e, in.version, maxExec)

DeleteCall(fails, maxExec) ==
    \E id \in Ids, e \in fails :
        Apply(DeleteEffect(playbooks, executions, index, id, e),
              "Delete", id, e, StoredVersion(id), maxExec)

\* RecordExecution, line 300: whether the call goes on to ApplyReflection.
Reflects(rec, auto) == auto /\ rec.reflection.present /\ rec.reflection.shouldUpdate

\* The failure a RecordExecution is recorded with: its own, or the one its
\* nested ApplyReflection met.
RecordFailure(e, e2) ==
    IF e2 = "none" THEN e
    ELSE CASE e2 = "embed" -> "reflect embed"
           [] e2 = "store" -> "reflect store"
           [] OTHER -> "reflect index"

\* The nested ApplyReflection can fail (e2) only when it is reached.
RecordExecutionCall(outcomes, refs, eids, fails, fails2, maxExec) ==
    \E id \in Ids, eid \in eids, o \in outcomes, ref \in refs, e \in fails, e2 \in fails2 :
        LET rec == [outcome |-> o, completedAt |-> now, reflection |-> ref]
        IN  /\ e2 # "none" =>
                  (e = "none" /\ id \in DOMAIN playbooks /\ Reflects(rec, autoReflect))
            /\ Apply(RecordExecutionEffect(playbooks, executions, index, id, eid, rec,
                                           e, e2, autoReflect),
                     "RecordExecution", id, RecordFailure(e, e2), StoredVersion(id), maxExec)

ApplyReflectionCall(refs, fails, maxExec) ==
    \E id \in Ids, ref \in refs, e \in fails :
        Apply(ApplyReflectionEffect(playbooks, executions, index, id, ref, e),
              "ApplyReflection", id, e, StoredVersion(id), maxExec)

PruneFailures ==
    {[at |-> 0, kind |-> "none"], [at |-> 0, kind |-> "list"]}
    \cup [at : 1..Cardinality(Ids), kind : {"save", "remove"}]

PruneCall(opts) ==
    \E o \in opts, f \in PruneFailures, order \in Listings(playbooks, TRUE) :
        LET r == PruneEffect(playbooks, index, order, o, f)
        IN  /\ playbooks' = r.pbs
            /\ index' = r.idx
            /\ last' = Called("Prune", 0, f.kind, r.err, 0, r.out)
            /\ UNCHANGED <<found, executions, now, autoReflect, deleted, fsys, rw, procs>>

ReindexCall(fails) ==
    \E e \in fails :
        /\ LET r == ReindexEffect(playbooks, executions, index, e)
           IN  /\ index' = r.idx
               /\ last' = Called("Reindex", 0, e, r.err, 0, << >>)
        /\ UNCHANGED <<found, playbooks, executions, now, autoReflect, deleted, fsys, rw, procs>>

\* The clock moves on by 180 days.
Tick ==
    /\ now + 2 <= MaxTime
    /\ now' = now + 2
    /\ UNCHANGED <<found, playbooks, executions, index, autoReflect, last, deleted, fsys, rw, procs>>

\* The goroutines calling the FileStore (SpecStore); a goroutine that is in no
\* call is Idle.
Procs == 1..NumProcs

Idle == [op |-> "idle", pc |-> "idle", path |-> <<"", 0, 0>>, v |-> 0, tmp |-> 0,
         old |-> [kind |-> "", v |-> 0], res |-> [kind |-> "", v |-> 0]]

StoreIdle ==
    /\ fsys = << >>
    /\ rw = [writer |-> 0, readers |-> {}, waiting |-> {}]
    /\ procs = [p \in Procs |-> Idle]

\* What the last search was and what it returned: the call, the
\* ContrastiveQuery of a SearchWithContext, the query Search ran, the mode the
\* indexer ran it in, its hits, the error, the results of Search and the
\* groups of SearchWithContext.
Found(op, cq, q, r, pos, neg, neu) ==
    [op |-> op, cq |-> cq, query |-> q, mode |-> r.mode, hits |-> r.hits, err |-> r.err,
     results |-> r.results, Positive |-> pos, Negative |-> neg, Neutral |-> neu]

\* No search has been made.
NotSearched ==
    Found("", NoContext, NoQuery, SearchReturn("", << >>, FALSE, << >>), << >>, << >>, << >>)

SearchCall(queries, fails) ==
    \E q \in queries, e \in fails :
        /\ e = "embed" => CallsEmbed(q)
        /\ \E hits \in Hits(index, EffectiveLimit(q.limit)) :
             \E r \in SearchOutcomes(playbooks, q, e, hits) :
                /\ found' = Found("Search", NoContext, q, r, << >>, << >>, << >>)
                /\ last' = Called("Search", 0, e, r.err, 0, << >>)
        /\ UNCHANGED <<playbooks, executions, index, now, autoReflect, deleted, fsys, rw, procs>>

SearchWithContextCall(cqs, fails) ==
    \E cq \in cqs, e \in fails :
        LET q == ContextQuery(cq)
        IN  /\ e = "embed" => CallsEmbed(q)
            /\ \E hits \in Hits(index, EffectiveLimit(q.limit)) :
                 \E r \in SearchOutcomes(playbooks, q, e, hits) :
                    IF ~r.err /\ CapPanics(cq)
                    THEN /\ found' = Found("SearchWithContext", cq, q, r, << >>, << >>, << >>)
                         /\ last' = Called("SearchWithContext", 0, "panic", TRUE, 0, << >>)
                    ELSE /\ found' = Found("SearchWithContext", cq, q, r,
                                           PositiveGroup(r.results, cq),
                                           NegativeGroup(r.results, cq),
                                           NeutralGroup(r.results, cq))
                         /\ last' = Called("SearchWithContext", 0, e, r.err, 0, << >>)
            /\ UNCHANGED <<playbooks, executions, index, now, autoReflect, deleted, fsys, rw, procs>>

ManagerNew(auto) ==
    /\ playbooks = << >>
    /\ executions = [id \in Ids |-> NoExecutions]
    /\ index = << >>
    /\ now = 1
    /\ autoReflect \in auto
    /\ last = Called("New", 0, "none", FALSE, 0, << >>)
    /\ deleted = [id \in Ids |-> "no"]
    /\ found = NotSearched

\* ------------------------------------------------------------------- Spec
Create ==
    CreateCall({[Blank EXCEPT !.status = StatusDraft, !.version = v] : v \in {0, 2}},
               {"none", "embed", "store", "index"}, MaxRecorded)

Update ==
    UpdateCall({StatusActive}, {FALSE},
               {"none", "embed", "store", "index"}, MaxRecorded)

Delete == DeleteCall({"none", "store", "all", "index"}, MaxRecorded)

RecordExecution ==
    RecordExecutionCall({OutcomeSuccess}, {NoReflection}, ExecIds,
                        {"none", "exec", "store", "index"}, {"none"}, MaxRecorded)

Reindex == ReindexCall({"none", "store", "index"})

Init == ManagerNew({FALSE}) /\ StoreIdle

Next ==
    \/ Create
    \/ Update
    \/ Delete
    \/ RecordExecution
    \/ Reindex

Spec == Init /\ [][Next]_vars

\* ------------------------------------------------------------- SpecRecord
RecCreate ==
    CreateCall({[Blank EXCEPT !.status = st] : st \in Statuses}, {"none"}, MaxExec)

RecRecordExecution ==
    RecordExecutionCall(Outcomes, {NoReflection, Reflection(FALSE, <<"a">>)}, {1},
                        {"none", "exec", "store", "index"}, {"none"}, MaxExec)

InitRecord == ManagerNew(BOOLEAN) /\ StoreIdle

NextRecord ==
    \/ RecCreate
    \/ RecRecordExecution

SpecRecord == InitRecord /\ [][NextRecord]_vars

\* --------------------------------------------------------------- SpecLife
LifeCreate ==
    CreateCall({[Blank EXCEPT !.status = st] : st \in Statuses}, {"none"}, MaxRecorded)

\* SpecLife keeps the playbooks to MaxLifeLessons lessons.
LessonsWithin(n) == \A id \in DOMAIN playbooks' : Len(playbooks'[id].lessons) <= n

LifeRecordExecution ==
    /\ RecordExecutionCall({OutcomeSuccess, OutcomeFailure},
                           {NoReflection, Reflection(TRUE, <<"a">>)}, {1},
                           {"none"}, {"none", "store"}, MaxRecorded)
    /\ LessonsWithin(MaxLifeLessons)

LifeApplyReflection ==
    /\ ApplyReflectionCall({Reflection(TRUE, <<"a">>)}, {"none", "embed", "index"},
                           MaxRecorded)
    /\ LessonsWithin(MaxLifeLessons)

LifePrune == PruneCall([maxAge : {0}, minConfidence : {0}, dryRun : {FALSE}])

LifePruneDryRun == PruneCall([maxAge : {0}, minConfidence : {0}, dryRun : {TRUE}])

LifeReindex == ReindexCall({"none", "index"})

InitLife == ManagerNew(BOOLEAN) /\ StoreIdle

NextLife ==
    \/ LifeCreate
    \/ LifeRecordExecution
    \/ LifeApplyReflection
    \/ LifePrune
    \/ LifePruneDryRun
    \/ LifeReindex
    \/ Tick

SpecLife == InitLife /\ [][NextLife]_vars

\* ------------------------------------------------------------ SpecReflect
\* The improvement lists of the reflections: none, one, two.
Improvements == {<< >>, <<"a">>, <<"a", "b">>}

ReflectCreate ==
    CreateCall({[Blank EXCEPT !.status = StatusDraft]}, {"none"}, MaxRecorded)

ReflectApplyReflection ==
    ApplyReflectionCall({Reflection(su, imp) : su \in BOOLEAN, imp \in Improvements},
                        {"none", "embed", "store", "index"}, MaxRecorded)

\* A RecordExecution whose record carries no reflection, or one that does not
\* ask for an update.
ReflectRecordPlain ==
    RecordExecutionCall({OutcomeSuccess, OutcomeFailure},
                        {NoReflection, Reflection(FALSE, <<"a">>)}, {1},
                        {"none", "store"}, {"none"}, MaxRecorded)

\* A RecordExecution whose record carries a reflection that asks for an update.
ReflectRecordReflecting ==
    RecordExecutionCall({OutcomeSuccess, OutcomeFailure}, {Reflection(TRUE, <<"a">>)}, {1},
                        {"none", "store"}, {"none", "embed", "store", "index"}, MaxRecorded)

InitReflect == ManagerNew(BOOLEAN) /\ StoreIdle

NextReflect ==
    \/ ReflectCreate
    \/ ReflectApplyReflection
    \/ ReflectRecordPlain
    \/ ReflectRecordReflecting

SpecReflect == InitReflect /\ [][NextReflect]_vars

\* -------------------------------------------------------------- SpecStats
\* The counters and statistics a caller passes: a rate and a confidence that
\* belong to none of the counters.
PassedStats ==
    [successCount : {0, 1}, failureCount : {0, 1},
     successRate : {<<1, 3>>}, confidence : {900}]

StatsCreate ==
    \E st \in PassedStats :
        CreateCall({[Blank EXCEPT !.status = StatusDraft,
                                  !.successCount = st.successCount,
                                  !.failureCount = st.failureCount,
                                  !.successRate = st.successRate,
                                  !.confidence = st.confidence]},
                   {"none"}, MaxRecorded)

StatsUpdate == UpdateWithCall(PassedStats, {"none", "store"}, MaxRecorded)

StatsRecordExecution ==
    /\ RecordExecutionCall({OutcomeSuccess, OutcomeFailure, OutcomePartial},
                           {NoReflection, Reflection(TRUE, <<"a">>)}, {1},
                           {"none"}, {"none"}, MaxRecorded)
    /\ LessonsWithin(MaxLifeLessons)

StatsApplyReflection ==
    /\ ApplyReflectionCall({Reflection(TRUE, <<"a">>)}, {"none"}, MaxRecorded)
    /\ LessonsWithin(MaxLifeLessons)

StatsPrune == PruneCall([maxAge : {0}, minConfidence : {0}, dryRun : {FALSE}])

InitStats == ManagerNew(BOOLEAN) /\ StoreIdle

NextStats ==
    \/ StatsCreate
    \/ StatsUpdate
    \/ StatsRecordExecution
    \/ StatsApplyReflection
    \/ StatsPrune
    \/ Tick

SpecStats == InitStats /\ [][NextStats]_vars

\* ------------------------------------------------------------- SpecSearch
\* The playbooks the searches run over, 0 for one that is in the index and no
\* longer in the store, and the executions recorded for the others.
SearchIds == {1, 2, 3}
SearchCounters == {<<9, 1>>, <<1, 9>>, <<7, 3>>}
NoCounters == <<0, 0>>

Recorded(c) ==
    UpdateStats([Blank EXCEPT !.version = 1, !.status = StatusDraft,
                              !.successCount = c[1], !.failureCount = c[2],
                              !.createdAt = 1, !.updatedAt = 1, !.lastUsedAt = 1])

TextQuery == [NoQuery EXCEPT !.text = TRUE]

SearchQueries ==
    {[TextQuery EXCEPT !.confidenceWeight = w] : w \in {0, 500, 1000, 1500}}
    \cup {[TextQuery EXCEPT !.mode = m] : m \in SearchModes \cup {"fuzzy"}}
    \cup {[TextQuery EXCEPT !.limit = 1, !.minScore = 2],
          [TextQuery EXCEPT !.limit = 2, !.confidenceWeight = 500],
          [TextQuery EXCEPT !.embedding = TRUE, !.mode = SearchModeVector],
          [NoQuery EXCEPT !.mode = SearchModeVector]}

ContrastiveQueries ==
    {[query |-> [TextQuery EXCEPT !.limit = l, !.minScore = 2, !.confidenceWeight = w],
      positiveMinConfidence |-> t[1], negativeMaxConfidence |-> t[2],
      includeNeutral |-> n] :
        l \in {0, 1}, w \in {0, 500}, t \in {<<0, 0>>, <<10, 700>>}, n \in BOOLEAN}
    \cup {[NoContext EXCEPT !.query = [TextQuery EXCEPT !.limit = -1],
                            !.includeNeutral = TRUE]}

\* SpecSearch follows one search from each store: a search writes nothing that
\* a later search reads.
SearchSearch ==
    /\ found = NotSearched
    /\ SearchCall(SearchQueries, {"none", "embed", "index"})

SearchSearchWithContext ==
    /\ found = NotSearched
    /\ SearchWithContextCall(ContrastiveQueries, {"none", "embed"})

InitSearch ==
    /\ \E c \in [SearchIds -> SearchCounters \cup {NoCounters}] :
          /\ playbooks = [id \in {i \in SearchIds : c[i] # NoCounters} |-> Recorded(c[id])]
          /\ index = [id \in SearchIds |-> playbookToDoc(Recorded(c[id]))]
    /\ executions = [id \in Ids |-> NoExecutions]
    /\ now = 1
    /\ autoReflect = FALSE
    /\ last = Called("New", 0, "none", FALSE, 0, << >>)
    /\ deleted = [id \in Ids |-> "no"]
    /\ found = NotSearched
    /\ StoreIdle

NextSearch ==
    \/ SearchSearch
    \/ SearchSearchWithContext

SpecSearch == InitSearch /\ [][NextSearch]_vars

\* ------------------------------------------------- the FileStore, inside
\* Files are named <<kind, a, b>>: the playbook document of id a, the
\* execution record b of playbook a, a temporary file b in the playbooks
\* directory, a temporary file b in the execution directory of playbook a.
\* A file holds a document v, whole or cut short.
Docs == 1..MaxDoc

playbookPath(id) == <<"playbooks", id, 0>>
executionPath(pid, eid) == <<"executions", pid, eid>>

\* A write that goes straight to the file it is to replace.
TempPathInPlace(path, n) == path

\* os.CreateTemp(dir, ".tmp-*"): a name in the directory of path. CreateTemp
\* takes a name that is not in use; the model takes the first one. At most
\* MaxTemps temporary files exist: with that many left behind by crashes, a
\* save waits.
TempPath(path, n) == <<".tmp", IF path[1] = "playbooks" THEN 0 ELSE path[2], n>>

\* The files under executionDir(id): the records and the temporary files.
InExecutionDir(f, id) == f[1] \in {"executions", ".tmp"} /\ f[2] = id

\* filepath.Ext(name) = ".json"
IsJSON(f) == f[1] \in {"playbooks", "executions"}

\* The temporary files there are, in any directory.
TempFiles(fs) == {f \in DOMAIN fs : f[1] = ".tmp"}

WriteFile(fs, f, v, whole) ==
    [g \in DOMAIN fs \cup {f} |-> IF g = f THEN [v |-> v, whole |-> whole] ELSE fs[g]]

RemoveFiles(fs, gone) == [g \in DOMAIN fs \ gone |-> fs[g]]

\* os.Rename(tmp, path)
RenameFile(fs, tmp, path) ==
    [g \in (DOMAIN fs \ {tmp}) \cup {path} |-> IF g = path THEN fs[tmp] ELSE fs[g]]

\* os.ReadFile, then json.Unmarshal: the document, ErrNotFound, or the
\* unmarshal error of a document cut short.
ReadDoc(fs, f) ==
    IF f \notin DOMAIN fs THEN [kind |-> ErrNotFound, v |-> 0]
    ELSE IF fs[f].whole THEN [kind |-> "ok", v |-> fs[f].v]
    ELSE [kind |-> "corrupt", v |-> 0]

WriteOps == {"SavePlaybook", "SaveExecution", "DeletePlaybook"}
ReadOps == {"GetPlaybook", "ListPlaybooks", "ListExecutions"}

\* The positions between Lock/RLock and the deferred Unlock/RUnlock.
InCritical(p) == procs[p].pc \notin {"idle", "lock"}

\* A Lock that waits for the writer only, not for the readers.
CanLockAmongReaders(m, p) == m.writer = 0

\* sync.RWMutex: Lock waits until no goroutine holds the lock, and keeps new
\* readers out while it waits; RLock waits while a writer holds or awaits it.
CanLock(m, p) == m.writer = 0 /\ m.readers = {}

CanRLock(m, p) == m.writer = 0 /\ m.waiting = {}

\* A goroutine calls a store method and reaches its Lock or RLock. The
\* document a save carries is drawn where it is first used, in CreateTemp.
StoreCall(p) ==
    /\ procs[p].pc = "idle"
    /\ \E op \in WriteOps \cup ReadOps, id \in Ids :
        LET path == IF op = "SaveExecution" THEN executionPath(id, 1) ELSE playbookPath(id)
        IN  /\ procs' = [procs EXCEPT ![p] =
                   [Idle EXCEPT !.op = op, !.pc = "lock", !.path = path]]
            /\ rw' = IF op \in WriteOps THEN [rw EXCEPT !.waiting = @ \cup {p}] ELSE rw
    /\ UNCHANGED <<found, fsys, playbooks, executions, index, now, autoReflect, last, deleted>>

FirstStep(op) ==
    CASE op \in {"SavePlaybook", "SaveExecution"} -> "create"
      [] op = "DeletePlaybook" -> "remove"
      [] OTHER -> "read"

Lock(p) ==
    /\ procs[p].pc = "lock"
    /\ procs[p].op \in WriteOps
    /\ CanLock(rw, p)
    /\ rw' = [rw EXCEPT !.writer = p, !.waiting = @ \ {p}]
    /\ procs' = [procs EXCEPT ![p].pc = FirstStep(procs[p].op),
                              ![p].old = ReadDoc(fsys, procs[p].path)]
    /\ UNCHANGED <<found, fsys, playbooks, executions, index, now, autoReflect, last, deleted>>

RLock(p) ==
    /\ procs[p].pc = "lock"
    /\ procs[p].op \in ReadOps
    /\ CanRLock(rw, p)
    /\ rw' = [rw EXCEPT !.readers = @ \cup {p}]
    /\ procs' = [procs EXCEPT ![p].pc = "read"]
    /\ UNCHANGED <<found, fsys, playbooks, executions, index, now, autoReflect, last, deleted>>

\* atomicWriteJSON, one step per file operation. The write of the data
\* reaches the file in two parts.
CreateTemp(p) ==
    /\ procs[p].pc = "create"
    /\ \E n \in 1..MaxTemps, v \in Docs :
        LET tmp == TempPath(procs[p].path, n)
        IN  /\ procs[p].op = "SaveExecution" => v = 1
            /\ Cardinality(TempFiles(fsys)) < MaxTemps
            /\ tmp \notin DOMAIN fsys
            /\ \A k \in 1..(n - 1) : TempPath(procs[p].path, k) \in DOMAIN fsys
            /\ fsys' = WriteFile(fsys, tmp, v, FALSE)
            /\ procs' = [procs EXCEPT ![p].pc = "write", ![p].tmp = n, ![p].v = v]
    /\ UNCHANGED <<found, rw, playbooks, executions, index, now, autoReflect, last, deleted>>

WriteTemp(p) ==
    /\ procs[p].pc = "write"
    /\ fsys' = WriteFile(fsys, TempPath(procs[p].path, procs[p].tmp), procs[p].v, TRUE)
    /\ procs' = [procs EXCEPT ![p].pc = "rename"]
    /\ UNCHANGED <<found, rw, playbooks, executions, index, now, autoReflect, last, deleted>>

Rename(p) ==
    /\ procs[p].pc = "rename"
    /\ fsys' = RenameFile(fsys, TempPath(procs[p].path, procs[p].tmp), procs[p].path)
    /\ procs' = [procs EXCEPT ![p].pc = "unlock", ![p].res = [kind |-> "ok", v |-> 0]]
    /\ UNCHANGED <<found, rw, playbooks, executions, index, now, autoReflect, last, deleted>>

\* tmp.Write, tmp.Close or os.Rename fails: the temporary file is removed.
WriteFails(p) ==
    /\ procs[p].pc \in {"write", "rename"}
    /\ fsys' = RemoveFiles(fsys, {TempPath(procs[p].path, procs[p].tmp)})
    /\ procs' = [procs EXCEPT ![p].pc = "unlock", ![p].res = [kind |-> "error", v |-> 0]]
    /\ UNCHANGED <<found, rw, playbooks, executions, index, now, autoReflect, last, deleted>>

\* DeletePlaybook: os.Remove(path), then os.RemoveAll(execDir).
Remove(p) ==
    /\ procs[p].pc = "remove"
    /\ fsys' = RemoveFiles(fsys, {procs[p].path})
    /\ procs' = [procs EXCEPT ![p].pc = "removeAll"]
    /\ UNCHANGED <<found, rw, playbooks, executions, index, now, autoReflect, last, deleted>>

RemoveAll(p) ==
    /\ procs[p].pc = "removeAll"
    /\ fsys' = RemoveFiles(fsys, {f \in DOMAIN fsys : InExecutionDir(f, procs[p].path[2])})
    /\ procs' = [procs EXCEPT ![p].pc = "unlock", ![p].res = [kind |-> "ok", v |-> 0]]
    /\ UNCHANGED <<found, rw, playbooks, executions, index, now, autoReflect, last, deleted>>

\* GetPlaybook reads its document; the listings read every .json file of
\* their directory and skip the ones that do not unmarshal (res.v counts the
\* documents returned).
Listed(fs, op, id) ==
    {f \in DOMAIN fs : /\ IsJSON(f)
                       /\ f[1] = (IF op = "ListPlaybooks" THEN "playbooks" ELSE "executions")
                       /\ op = "ListExecutions" => f[2] = id
                       /\ ReadDoc(fs, f).kind = "ok"}

Read(p) ==
    /\ procs[p].pc = "read"
    /\ procs' = [procs EXCEPT ![p].pc = "unlock",
                              ![p].res = IF procs[p].op = "GetPlaybook"
                                         THEN ReadDoc(fsys, procs[p].path)
                                         ELSE [kind |-> "ok",
                                               v |-> Cardinality(Listed(fsys, procs[p].op,
                                                                        procs[p].path[2]))]]
    /\ UNCHANGED <<found, fsys, rw, playbooks, executions, index, now, autoReflect, last, deleted>>

\* The deferred Unlock or RUnlock; the call returns.
\* A return that leaves the lock held.
UnlockForgotten(p) ==
    /\ procs[p].pc = "unlock"
    /\ procs' = [procs EXCEPT ![p] = Idle]
    /\ UNCHANGED <<found, fsys, rw, playbooks, executions, index, now, autoReflect, last,
                   deleted>>

\* The Unlock of a writer hands the lock to every reader blocked in RLock
\* before the next writer can take it, as sync.RWMutex does.
Unlock(p) ==
    LET handed == IF rw.writer = p
                  THEN {q \in Procs : procs[q].pc = "lock" /\ procs[q].op \in ReadOps}
                  ELSE {}
    IN  /\ procs[p].pc = "unlock"
        /\ rw' = [rw EXCEPT !.writer = IF @ = p THEN 0 ELSE @,
                            !.readers = (@ \ {p}) \cup handed]
        /\ procs' = [q \in Procs |-> IF q = p THEN Idle
                                     ELSE IF q \in handed THEN [procs[q] EXCEPT !.pc = "read"]
                                     ELSE procs[q]]
    /\ UNCHANGED <<found, fsys, playbooks, executions, index, now, autoReflect, last, deleted>>

\* The process dies: its goroutines and its mutex are gone, the files stay as
\* they are. A new process opens the same data directory.
Crash ==
    /\ \E p \in Procs : procs[p].pc # "idle"
    /\ procs' = [p \in Procs |-> Idle]
    /\ rw' = [writer |-> 0, readers |-> {}, waiting |-> {}]
    /\ UNCHANGED <<found, fsys, playbooks, executions, index, now, autoReflect, last, deleted>>

InitStore ==
    /\ ManagerNew({FALSE})
    /\ StoreIdle

NextStore ==
    \/ \E p \in Procs : StoreCall(p)
    \/ \E p \in Procs : Lock(p)
    \/ \E p \in Procs : RLock(p)
    \/ \E p \in Procs : CreateTemp(p)
    \/ \E p \in Procs : WriteTemp(p)
    \/ \E p \in Procs : Rename(p)
    \/ \E p \in Procs : WriteFails(p)
    \/ \E p \in Procs : Remove(p)
    \/ \E p \in Procs : RemoveAll(p)
    \/ \E p \in Procs : Read(p)
    \/ \E p \in Procs : Unlock(p)
    \/ Crash

SpecStore == InitStore /\ [][NextStore]_vars

\* The FileStore in a process that does not crash, under fair scheduling. A
\* goroutine that can take a step of its store call takes it in the end. A
\* goroutine blocked in Lock or RLock gets the lock if it is free again and
\* again: sync.RWMutex hands the lock to the readers blocked behind a writer
\* when that writer unlocks, and keeps new readers out while a writer waits.
\* Nothing obliges a goroutine to make another call.
StoreStep(p) ==
    \/ CreateTemp(p)
    \/ WriteTemp(p)
    \/ Rename(p)
    \/ WriteFails(p)
    \/ Remove(p)
    \/ RemoveAll(p)
    \/ Read(p)
    \/ Unlock(p)

NextStoreFair ==
    \/ \E p \in Procs : StoreCall(p)
    \/ \E p \in Procs : Lock(p)
    \/ \E p \in Procs : RLock(p)
    \/ \E p \in Procs : StoreStep(p)

StoreFairness ==
    \A p \in Procs : /\ WF_vars(StoreStep(p))
                     /\ SF_vars(Lock(p))
                     /\ SF_vars(RLock(p))

SpecStoreFair == InitStore /\ [][NextStoreFair]_vars /\ StoreFairness

\* -------------------------------------------------------------- SpecWilson
\* UpdateStats over the histories of one playbook: from no execution, one
\* success or failure at a time, and the history of 95 successes and 5
\* failures that WilsonConfidence is documented with.
LargeHistory == [successCount |-> 95, failureCount |-> 5]

Counted(successes, failures) ==
    UpdateStats([Blank EXCEPT !.status = StatusDraft,
                              !.successCount = successes,
                              !.failureCount = failures])

WilsonCount(outcomes) ==
    \E id \in DOMAIN playbooks, o \in outcomes :
        LET pb == playbooks[id]
            s == pb.successCount + (IF o = OutcomeSuccess THEN 1 ELSE 0)
            f == pb.failureCount + (IF o = OutcomeFailure THEN 1 ELSE 0)
        IN  /\ s <= MaxSuccesses
            /\ f <= MaxFailures
            /\ playbooks' = [playbooks EXCEPT ![id] = Counted(s, f)]
            /\ last' = Called("UpdateStats", id, "none", FALSE, 0, <<o>>)
            /\ UNCHANGED <<found, executions, index, now, autoReflect, deleted,
                           fsys, rw, procs>>

WilsonSuccess == WilsonCount({OutcomeSuccess})

WilsonFailure == WilsonCount({OutcomeFailure})

InitWilson ==
    /\ \E h \in {[successCount |-> 0, failureCount |-> 0], LargeHistory} :
          playbooks = [id \in Ids |-> Counted(h.successCount, h.failureCount)]
    /\ executions = [id \in Ids |-> NoExecutions]
    /\ index = << >>
    /\ now = 1
    /\ autoReflect = FALSE
    /\ last = Called("New", 0, "none", FALSE, 0, << >>)
    /\ deleted = [id \in Ids |-> "no"]
    /\ found = NotSearched
    /\ StoreIdle

NextWilson ==
    \/ WilsonSuccess
    \/ WilsonFailure

SpecWilson == InitWilson /\ [][NextWilson]_vars

\* --------------------------------------------------------------- SpecList
\* ListPlaybooks and ListExecutions over a data directory as it is found on
\* disk: each file holds a document (whole), or JSON that does not unmarshal,
\* or cannot be read at all.
ListIds == 1..3
ListExecIds == 1..2

PlaybookDocs ==
    [status : {StatusDraft, StatusActive}, archived : BOOLEAN, confidence : {0, 500},
     category : {""}, tags : {{}}]

ExecutionDocs == [startedAt : 1..2]

Malformed(v) == [v |-> v, whole |-> FALSE, readable |-> TRUE]
Unreadable(v) == [v |-> v, whole |-> TRUE, readable |-> FALSE]

\* What a file of the directory can be, given the documents of its kind.
FileStates(docs) ==
    LET any == CHOOSE d \in docs : TRUE
    IN  {[v |-> d, whole |-> TRUE, readable |-> TRUE] : d \in docs}
            \cup {Malformed(any), Unreadable(any)}

ListFilters ==
    [includeArchived : BOOLEAN, status : {NoStatus, StatusDraft, StatusActive},
     category : {""}, tags : {{}}, limit : {0, 2}]

\* The entries of the directory that the loop of a listing does not skip as
\* a directory or as a file without the .json extension.
Entries(fs, dir, pid) ==
    {f \in DOMAIN fs : IsJSON(f) /\ f[1] = dir /\ (dir = "executions" => f[2] = pid)}

\* os.ReadFile and json.Unmarshal both succeed on the entry.
Decodes(fs, f) == fs[f].readable /\ fs[f].whole

\* The name of an entry within its directory, by which os.ReadDir orders.
EntryName(f) == IF f[1] = "playbooks" THEN f[2] ELSE f[3]

\* A loop that stops at the first entry it cannot read or unmarshal.
DecodedUntilFirstFailure(fs, entries) ==
    {f \in entries : \A g \in entries : EntryName(g) <= EntryName(f) => Decodes(fs, g)}

\* The loop of a listing: the entries that are read and unmarshalled; the
\* others are skipped.
Decoded(fs, entries) == {f \in entries : Decodes(fs, f)}

\* sort.Slice by the key, descending, then the cut at the limit. Equal keys
\* come in any order.
SortedCut(names, key, limit) ==
    LET n == Cardinality(names)
        orders == {s \in [1..n -> names] :
                      /\ \A i, j \in 1..n : i # j => s[i] # s[j]
                      /\ \A i, j \in 1..n : i < j => key[s[i]] >= key[s[j]]}
    IN  {IF limit > 0 /\ n > limit THEN SubSeq(s, 1, limit) ELSE s : s \in orders}

\* The results FileStore.ListPlaybooks can return, as sequences of ids.
FileListPlaybooks(fs, filter) ==
    LET hits == {f \in Decoded(fs, Entries(fs, "playbooks", 0)) :
                    matchesFilter(fs[f].v, filter)}
        ids == {f[2] : f \in hits}
    IN  SortedCut(ids, [id \in ids |-> fs[playbookPath(id)].v.confidence], filter.limit)

\* The results FileStore.ListExecutions can return, as sequences of record ids.
FileListExecutions(fs, pid, limit) ==
    LET hits == Decoded(fs, Entries(fs, "executions", pid))
        eids == {f[3] : f \in hits}
    IN  SortedCut(eids, [e \in eids |-> fs[executionPath(pid, e)].v.startedAt], limit)

ListPlaybooksCall(filters) ==
    \E filter \in filters :
        \E out \in FileListPlaybooks(fsys, filter) :
            /\ last' = Called("ListPlaybooks", 0, "none", FALSE, 0, out)
            /\ UNCHANGED <<found, playbooks, executions, index, now, autoReflect, deleted,
                           fsys, rw, procs>>

ListExecutionsCall(pids, limits) ==
    \E pid \in pids, limit \in limits :
        \E out \in FileListExecutions(fsys, pid, limit) :
            /\ last' = Called("ListExecutions", pid, "none", FALSE, 0, out)
            /\ UNCHANGED <<found, playbooks, executions, index, now, autoReflect, deleted,
                           fsys, rw, procs>>

\* SpecList follows one listing from each directory: a listing writes
\* nothing that a later listing reads.
ListListPlaybooks ==
    /\ last.op = "New"
    /\ ListPlaybooksCall(ListFilters)

ListListExecutions ==
    /\ last.op = "New"
    /\ ListExecutionsCall({1}, {0, 1})

\* The data directory NewFileStore is opened on. A listing reads one of the
\* two directories: the other one is empty.
InitList ==
    /\ playbooks = << >>
    /\ executions = [id \in Ids |-> NoExecutions]
    /\ index = << >>
    /\ now = 1
    /\ autoReflect = FALSE
    /\ last = Called("New", 0, "none", FALSE, 0, << >>)
    /\ deleted = [id \in Ids |-> "no"]
    /\ found = NotSearched
    /\ rw = [writer |-> 0, readers |-> {}, waiting |-> {}]
    /\ procs = [p \in Procs |-> Idle]
    /\ \E ids \in SUBSET ListIds, eids \in SUBSET ListExecIds :
         /\ ids = {} \/ eids = {}
         /\ \E pf \in [ids -> FileStates(PlaybookDocs)],
               ef \in [eids -> FileStates(ExecutionDocs)] :
              fsys = [f \in {playbookPath(i) : i \in ids}
                                \cup {executionPath(1, e) : e \in eids}
                        |-> IF f[1] = "playbooks" THEN pf[f[2]] ELSE ef[f[3]]]

NextList ==
    \/ ListListPlaybooks
    \/ ListListExecutions

SpecList == InitList /\ [][NextList]_vars

\* --------------------------------------------------------------- SpecRace
\* Manager calls running concurrently, in two goroutines. The manager holds
\* no lock of its own: a call is a sequence of store and indexer calls, each
\* atomic under the lock of the store or of the indexer, and other calls run
\* in between. procs[p] is the call goroutine p is in: the store or indexer
\* call it is about to make (pc), the playbook it holds (pb), its execution
\* record, and the count of its RecordExecution calls that started and that
\* returned nil.
Racers == {1, 2}

RaceIdle ==
    [op |-> "idle", pc |-> "idle", id |-> 0, pb |-> Blank, eid |-> 0, outcome |-> "",
     started |-> 0, returned |-> 0]

RECURSIVE SumOver(_, _)
SumOver(f, S) ==
    IF S = {} THEN 0 ELSE LET x == CHOOSE y \in S : TRUE IN f[x] + SumOver(f, S \ {x})

\* The RecordExecution calls that have started, and those that returned nil.
RaceStarted == SumOver([p \in Racers |-> procs[p].started], Racers)
RaceReturned == SumOver([p \in Racers |-> procs[p].returned], Racers)

RaceFirstStep(op) ==
    CASE op = "RecordExecution" -> "SaveExecution"
      [] op = "Prune" -> "ListPlaybooks"
      [] OTHER -> "DeletePlaybook"

\* The call of goroutine p has returned.
RaceReturn(p, err, ok, out) ==
    /\ procs' = [procs EXCEPT ![p] = [RaceIdle EXCEPT !.started = procs[p].started,
                                                       !.returned = procs[p].returned + ok]]
    /\ last' = Called(procs[p].op, procs[p].id, "none", err, 0, out)

\* Create, before any other call.
RaceCreate ==
    /\ last.op = "New"
    /\ CreateCall({[Blank EXCEPT !.status = StatusDraft]}, {"none"}, MaxRecorded)

\* Goroutine p enters RecordExecution, Prune or Delete. rec.ID is a fresh
\* uuid. No call starts once a Delete has returned.
RaceCall(p) ==
    /\ procs[p].pc = "idle"
    /\ \E id \in DOMAIN playbooks, op \in {"RecordExecution", "Prune", "Delete"},
          o \in {OutcomeSuccess, OutcomeFailure} :
          /\ deleted[id] = "no"
          /\ op = "RecordExecution" => RaceStarted < MaxRecorded
          /\ op # "RecordExecution" => o = OutcomeSuccess
          /\ procs' = [procs EXCEPT ![p] =
                 [@ EXCEPT !.op = op, !.pc = RaceFirstStep(op), !.id = id,
                           !.eid = IF op = "RecordExecution" THEN RaceStarted + 1 ELSE 0,
                           !.outcome = IF op = "RecordExecution" THEN o ELSE "",
                           !.started = @ + (IF op = "RecordExecution" THEN 1 ELSE 0)]]
    /\ UNCHANGED <<found, playbooks, executions, index, now, autoReflect, last, deleted,
                   fsys, rw>>

\* RecordExecution, line 272.
RaceSaveExecution(p) ==
    /\ procs[p].pc = "SaveExecution"
    /\ executions' = SaveExecution(executions, procs[p].id, procs[p].eid,
                                   [outcome |-> procs[p].outcome])
    /\ procs' = [procs EXCEPT ![p].pc = "GetPlaybook"]
    /\ UNCHANGED <<found, playbooks, index, now, autoReflect, last, deleted, fsys, rw>>

\* RecordExecution, lines 277-291: the playbook is read, and changed in the
\* memory of the call.
RaceGetPlaybook(p) ==
    /\ procs[p].pc = "GetPlaybook"
    /\ IF procs[p].id \in DOMAIN playbooks
       THEN /\ procs' = [procs EXCEPT
                   ![p].pc = "SavePlaybook",
                   ![p].pb = RecordedPlaybook(playbooks[procs[p].id],
                                 [outcome |-> procs[p].outcome, completedAt |-> now,
                                  reflection |-> NoReflection])]
            /\ last' = last
       ELSE RaceReturn(p, TRUE, 0, << >>)
    /\ UNCHANGED <<found, playbooks, executions, index, now, autoReflect, deleted, fsys, rw>>

\* Prune, lines 353-381: the listing, and the decision on the playbook listed.
RaceListPlaybooks(p) ==
    /\ procs[p].pc = "ListPlaybooks"
    /\ IF /\ procs[p].id \in DOMAIN playbooks
          /\ ~playbooks[procs[p].id].archived
          /\ ShouldPrune(playbooks[procs[p].id], DefaultMinConfidence, now - DefaultMaxAge)
       THEN /\ procs' = [procs EXCEPT ![p].pc = "SavePlaybook",
                                      ![p].pb = playbooks[procs[p].id]]
            /\ last' = last
       ELSE RaceReturn(p, FALSE, 0, << >>)
    /\ UNCHANGED <<found, playbooks, executions, index, now, autoReflect, deleted, fsys, rw>>

\* RecordExecution, line 293, and Prune, lines 386-388: the playbook the call
\* holds is written over the stored one.
RaceSavePlaybook(p) ==
    /\ procs[p].pc = "SavePlaybook"
    /\ LET pb == IF procs[p].op = "Prune" THEN PrunedPlaybook(procs[p].pb) ELSE procs[p].pb
       IN  /\ playbooks' = SavePlaybook(playbooks, procs[p].id, pb)
           /\ procs' = [procs EXCEPT ![p].pb = pb,
                                     ![p].pc = IF procs[p].op = "Prune" THEN "Remove"
                                               ELSE "Index"]
    /\ UNCHANGED <<found, executions, index, now, autoReflect, last, deleted, fsys, rw>>

\* RecordExecution, lines 295-297 and the return of line 313.
RaceIndex(p) ==
    /\ procs[p].pc = "Index"
    /\ index' = IndexDoc(index, procs[p].id, procs[p].pb)
    /\ RaceReturn(p, FALSE, 1, << >>)
    /\ UNCHANGED <<found, playbooks, executions, now, autoReflect, deleted, fsys, rw>>

\* Delete, line 183.
RaceDeletePlaybook(p) ==
    /\ procs[p].pc = "DeletePlaybook"
    /\ playbooks' = DeletePlaybook(playbooks, procs[p].id)
    /\ executions' = RemoveExecutions(executions, procs[p].id)
    /\ procs' = [procs EXCEPT ![p].pc = "Remove"]
    /\ UNCHANGED <<found, index, now, autoReflect, last, deleted, fsys, rw>>

\* indexer.Remove and the return, of Delete (lines 186-189) and of Prune
\* (lines 389-398).
RaceRemove(p) ==
    /\ procs[p].pc = "Remove"
    /\ index' = RemoveDoc(index, procs[p].id)
    /\ RaceReturn(p, FALSE, 0, IF procs[p].op = "Prune" THEN <<procs[p].id>> ELSE << >>)
    /\ deleted' = IF procs[p].op = "Delete" THEN [deleted EXCEPT ![procs[p].id] = "yes"]
                  ELSE deleted
    /\ UNCHANGED <<found, playbooks, executions, now, autoReflect, fsys, rw>>

InitRace ==
    /\ playbooks = << >>
    /\ executions = [id \in Ids |-> NoExecutions]
    /\ index = << >>
    /\ now = 1
    /\ autoReflect = FALSE
    /\ last = Called("New", 0, "none", FALSE, 0, << >>)
    /\ deleted = [id \in Ids |-> "no"]
    /\ found = NotSearched
    /\ fsys = << >>
    /\ rw = [writer |-> 0, readers |-> {}, waiting |-> {}]
    /\ procs = [p \in Racers |-> RaceIdle]

NextRace ==
    \/ RaceCreate
    \/ Tick
    \/ \E p \in Racers : RaceCall(p)
    \/ \E p \in Racers : RaceSaveExecution(p)
    \/ \E p \in Racers : RaceGetPlaybook(p)
    \/ \E p \in Racers : RaceListPlaybooks(p)
    \/ \E p \in Racers : RaceSavePlaybook(p)
    \/ \E p \in Racers : RaceIndex(p)
    \/ \E p \in Racers : RaceDeletePlaybook(p)
    \/ \E p \in Racers : RaceRemove(p)

SpecRace == InitRace /\ [][NextRace]_vars

\* ---------------------------------------------------------- the properties
\* A step is a RecordExecution on the stored playbook id that returned no
\* error.
RecordedStep(id) ==
    /\ id \in DOMAIN playbooks
    /\ last'.op = "RecordExecution"
    /\ last'.id = id
    /\ ~last'.err

\* The outcome of the record a RecordExecution step of SpecRecord saved
\* (SpecRecord gives every record the ID 1, and the record is saved first).
RecordedOutcome(id) == executions'[id][1].outcome

\* C1 (SpecRecord): a RecordExecution with outcome success on a draft playbook
\* that has no failures leaves it draft while it has fewer than 3 successes
\* and makes it active from the third success on.
C1_DraftPromotedOnThirdSuccess ==
    [][\A id \in Ids :
        (/\ RecordedStep(id)
         /\ RecordedOutcome(id) = OutcomeSuccess
         /\ playbooks[id].status = StatusDraft
         /\ playbooks[id].failureCount = 0)
        => playbooks'[id].status =
               IF playbooks'[id].successCount >= 3 THEN StatusActive ELSE StatusDraft]_vars

\* C2 (SpecRecord): after a RecordExecution on an active playbook the stored
\* status is deprecated if and only if at least 5 executions are counted and
\* the success rate is below 0.3.
C2_ActiveDeprecatedIff ==
    [][\A id \in Ids :
        (RecordedStep(id) /\ playbooks[id].status = StatusActive)
        => (playbooks'[id].status = StatusDeprecated
            <=> ShouldDeprecate(playbooks'[id], DeprecationThreshold))]_vars

\* C3 (SpecLife): no RecordExecution, ApplyReflection, Prune or Reindex takes
\* a stored playbook from deprecated to draft or active, or out of archived
\* (the archived flag Prune sets, or the status archived).
C3_NoWayBack ==
    [][\A id \in DOMAIN playbooks :
        last'.op \in {"RecordExecution", "ApplyReflection", "Prune", "Reindex"}
        => /\ id \in DOMAIN playbooks'
           /\ playbooks[id].status = StatusDeprecated
              => playbooks'[id].status \notin {StatusDraft, StatusActive}
           /\ playbooks[id].status = StatusArchived
              => playbooks'[id].status = StatusArchived
           /\ playbooks[id].archived => playbooks'[id].archived]_vars

\* An ApplyReflection has rewritten a deprecated playbook that Prune had
\* archived before.
C3_Witness ==
    \E id \in DOMAIN playbooks :
        /\ playbooks[id].archived
        /\ playbooks[id].status = StatusDeprecated
        /\ last.op = "ApplyReflection"
        /\ last.id = id
        /\ ~last.err

\* C4 (SpecRecord): a RecordExecution never sets a playbook whose status is
\* draft to deprecated, whatever its counters and success rate are.
C4_DraftNeverDeprecated ==
    [][\A id \in DOMAIN playbooks :
        (last'.op = "RecordExecution" /\ playbooks[id].status = StatusDraft)
        => /\ id \in DOMAIN playbooks'
           /\ playbooks'[id].status # StatusDeprecated]_vars

\* A RecordExecution has left a draft playbook draft although ShouldDeprecate
\* holds of it.
C4_Witness ==
    \E id \in DOMAIN playbooks :
        /\ playbooks[id].status = StatusDraft
        /\ ShouldDeprecate(playbooks[id], DeprecationThreshold)
        /\ last.op = "RecordExecution"
        /\ last.id = id
        /\ ~last.err

C6_RecordRaisesVersion ==
    (last.op = "RecordExecution" /\ ~last.err)
    => playbooks[last.id].version = last.ver + 1

\* C6 (SpecRecord): a successful RecordExecution, no reflection applied,
\* leaves the stored version as it was.
C6_RecordKeepsVersion ==
    (last.op = "RecordExecution" /\ ~last.err)
    => playbooks[last.id].version = last.ver

\* A second execution has been recorded on a playbook that is still version 1.
C6_Witness ==
    /\ last.op = "RecordExecution"
    /\ ~last.err
    /\ playbooks[last.id].version = 1
    /\ playbooks[last.id].successCount + playbooks[last.id].failureCount >= 2

C8_NoPartialDocument ==
    /\ \A f \in DOMAIN fsys : IsJSON(f) => fsys[f].whole
    /\ \A p \in Procs :
        /\ procs[p].res.kind # "corrupt"
        /\ (procs[p].op \in {"SavePlaybook", "SaveExecution"} /\ InCritical(p))
           => \/ ReadDoc(fsys, procs[p].path) = procs[p].old
              \/ /\ procs[p].pc = "unlock"
                 /\ procs[p].res.kind = "ok"
                 /\ ReadDoc(fsys, procs[p].path) = [kind |-> "ok", v |-> procs[p].v]

\* A GetPlaybook has read the whole previous document while the temporary
\* file of an interrupted save of another version lies cut short next to it.
C8_Witness ==
    \E p \in Procs, n \in 1..MaxTemps :
        LET tmp == TempPath(procs[p].path, n)
        IN  /\ procs[p].op = "GetPlaybook"
            /\ procs[p].pc = "unlock"
            /\ procs[p].res.kind = "ok"
            /\ tmp \in DOMAIN fsys
            /\ ~fsys[tmp].whole
            /\ fsys[tmp].v # procs[p].res.v
            /\ \A q \in Procs : procs[q].pc \notin {"write", "rename"}

\* C9 (SpecStore): while a SavePlaybook, DeletePlaybook or SaveExecution is in
\* its critical section no other store call is in one.
C9_WritesExclusive ==
    \A p, q \in Procs :
        (p # q /\ procs[p].op \in WriteOps /\ InCritical(p)) => ~InCritical(q)

\* Two reads are in their critical sections together.
C9_Witness ==
    \E p, q \in Procs :
        /\ p # q
        /\ procs[p].op \in ReadOps /\ InCritical(p)
        /\ procs[q].op \in ReadOps /\ InCritical(q)

\* C10 (Spec): a Create or Update whose embedding step fails returns an error
\* and leaves the store and the index as they were.
C10_EmbedFailureWritesNothing ==
    [][(last'.op \in {"Create", "Update"} /\ last'.fail = "embed")
       => /\ last'.err
          /\ playbooks' = playbooks
          /\ index' = index]_vars

\* An Update of a stored playbook has failed at the embedding step and the
\* store still holds the version it had.
C10_Witness ==
    /\ last.op = "Update"
    /\ last.fail = "embed"
    /\ last.err
    /\ last.id \in DOMAIN playbooks
    /\ playbooks[last.id].version = last.ver
    /\ last.id \in DOMAIN index

\* C12 (Spec): a Delete whose store deletion fails returns an error and leaves
\* the index as it was; a Delete whose store deletion succeeds and whose index
\* removal fails returns an error and the playbook is no longer in the store.
C12_DeleteFailures ==
    [][(last'.op = "Delete")
       => /\ last'.fail \in {"store", "all"} => (last'.err /\ index' = index)
          /\ last'.fail = "index" => (last'.err /\ last'.id \notin DOMAIN playbooks')]_vars

\* A Delete of a stored playbook has failed at the index: the playbook is gone
\* from the store and still in the index.
C12_Witness ==
    /\ last.op = "Delete"
    /\ last.fail = "index"
    /\ last.err
    /\ last.ver > 0
    /\ last.id \notin DOMAIN playbooks
    /\ last.id \in DOMAIN index

C19_DeprecatedArchived ==
    [][(LifePrune /\ last'.op = "Prune" /\ ~last'.err)
       => \A id \in DOMAIN playbooks :
             (playbooks[id].status = StatusDeprecated /\ ~playbooks[id].archived)
                 => /\ \E i \in DOMAIN last'.out : last'.out[i] = id
                    /\ playbooks'[id].status = StatusArchived]_vars

\* C20 (SpecRecord): a RecordExecution that returns no error adds one to
\* successCount and nothing to failureCount when the outcome is success or
\* partial, one to failureCount and nothing to successCount when it is
\* failure.
C20_OneIncrement ==
    [][\A id \in Ids :
          RecordedStep(id)
              => LET succeeded == RecordedOutcome(id) \in {OutcomeSuccess, OutcomePartial}
                     failed == RecordedOutcome(id) = OutcomeFailure
                 IN  /\ playbooks'[id].successCount
                           = playbooks[id].successCount + (IF succeeded THEN 1 ELSE 0)
                     /\ playbooks'[id].failureCount
                           = playbooks[id].failureCount + (IF failed THEN 1 ELSE 0)]_vars

\* A partial outcome has been recorded for a playbook without failures that
\* had a success already.
C20_Witness ==
    /\ last.op = "RecordExecution"
    /\ ~last.err
    /\ last.id \in DOMAIN playbooks
    /\ executions[last.id][1].outcome = OutcomePartial
    /\ playbooks[last.id].successCount = 2
    /\ playbooks[last.id].failureCount = 0

\* C11: when the embedding function fails during a Search whose query has text
\* and no embedding, Search returns no error, the indexer runs the query in
\* the lexical mode (bm25), and the results are the stored playbooks among the
\* hits of that query.
C11_EmbedFailureFallsBack ==
    (last.op \in {"Search", "SearchWithContext"} /\ last.fail = "embed")
        => /\ CallsEmbed(found.query)
           /\ ~found.err
           /\ found.mode = SearchModeBM25
           /\ {found.results[i].id : i \in DOMAIN found.results}
                  = {found.hits[i].id : i \in DOMAIN found.hits} \cap DOMAIN playbooks

C11_Witness ==
    /\ last.op = "Search"
    /\ last.fail = "embed"
    /\ found.query.mode = SearchModeVector
    /\ Len(found.results) > 0

\* C13: every result of a Search carries the playbook the store holds under
\* its ID; a hit whose playbook is not in the store is left out of the results
\* and does not make the Search fail.
C13_ResultsFromStore ==
    found.op \in {"Search", "SearchWithContext"}
        => /\ \A i \in DOMAIN found.results :
                 /\ found.results[i].id \in DOMAIN playbooks
                 /\ found.results[i].pb = playbooks[found.results[i].id]
                 /\ \E j \in DOMAIN found.hits : found.hits[j].id = found.results[i].id
           /\ (~found.err) =>
                 \A j \in DOMAIN found.hits :
                    found.hits[j].id \in DOMAIN playbooks
                        <=> \E i \in DOMAIN found.results :
                               found.results[i].id = found.hits[j].id
           /\ found.err <=> (last.fail = "index" \/ found.mode \notin SearchModes)

C13_Witness ==
    /\ found.op = "Search"
    /\ ~found.err
    /\ Len(found.results) > 0
    /\ \E j \in DOMAIN found.hits : found.hits[j].id \notin DOMAIN playbooks

\* C14: with ConfidenceWeight 0, Search returns the stored playbooks among
\* the hits in the order of the hits and with the scores of the hits.
C14_ZeroWeightKeepsRelevance ==
    (found.op = "Search" /\ ~found.err /\ found.query.confidenceWeight = 0)
        => LET stored == SelectSeq(found.hits, LAMBDA h : h.id \in DOMAIN playbooks)
           IN  /\ Len(found.results) = Len(stored)
               /\ \A i \in DOMAIN found.results :
                     /\ found.results[i].id = stored[i].id
                     /\ found.results[i].score = stored[i].score

C14_Witness ==
    /\ found.op = "Search"
    /\ ~found.err
    /\ found.query.confidenceWeight = 0
    /\ Len(found.results) >= 2
    /\ found.results[1].pb.confidence < found.results[2].pb.confidence
    /\ RatioLess(found.results[2].score, found.results[1].score)

\* C15: with ConfidenceWeight w > 0 (a w above 1 counts as 1), each result's
\* score is (1-w)*norm + w*confidence, norm being the raw score min-max
\* normalised over the results (1 when all raw scores are equal); the results
\* are in non-increasing order of that score, and for w = 1 in non-increasing
\* order of confidence.
C15_BlendedScoreAndOrder ==
    (found.op = "Search" /\ ~found.err /\ found.query.confidenceWeight > 0)
        => LET stored == SelectSeq(found.hits, LAMBDA h : h.id \in DOMAIN playbooks)
               raws == {stored[i].score[1] : i \in DOMAIN stored}
               min == CHOOSE r \in raws : \A q \in raws : r <= q
               max == CHOOSE r \in raws : \A q \in raws : r >= q
               w == IF found.query.confidenceWeight > 1000 THEN 1000
                    ELSE found.query.confidenceWeight
               raw(id) == (CHOOSE i \in DOMAIN stored : stored[i].id = id)
               expected(r) ==
                   IF max = min
                   THEN Ratio((1000 - w) * 1000 + w * r.pb.confidence, 1000 * 1000)
                   ELSE Ratio((1000 - w) * (stored[raw(r.id)].score[1] - min) * 1000
                                 + w * r.pb.confidence * (max - min),
                              1000 * 1000 * (max - min))
           IN  /\ Len(found.results) = Len(stored)
               /\ \A i \in DOMAIN stored :
                     \E j \in DOMAIN found.results : found.results[j].id = stored[i].id
               /\ \A i \in DOMAIN found.results :
                     found.results[i].score = expected(found.results[i])
               /\ \A i, j \in DOMAIN found.results :
                     i < j => ~RatioLess(found.results[i].score, found.results[j].score)
               /\ w = 1000 =>
                     \A i, j \in DOMAIN found.results :
                        i < j => found.results[i].pb.confidence
                                    >= found.results[j].pb.confidence

C15_Witness ==
    /\ found.op = "Search"
    /\ ~found.err
    /\ found.query.confidenceWeight = 500
    /\ Len(found.results) = 3
    /\ found.results[1].id # found.hits[1].id
    /\ found.hits[1].score = found.hits[2].score
    /\ found.hits[1].score = found.hits[3].score

\* C16: SearchWithContext puts a result in Positive when its playbook's
\* confidence is at least PositiveMinConfidence (0.5 when not set), in
\* Negative when it is not positive and its confidence is at most
\* NegativeMaxConfidence (0.3 when not set), in Neutral otherwise and only
\* with IncludeNeutral; whatever the scores, no result is in two groups. With
\* the defaults, playbooks of counters (9,1), (1,9), (7,3) give one positive,
\* one negative and no neutral result, one neutral with IncludeNeutral. The
\* groups are those of a call that returns.
C16_GroupsByConfidence ==
    (found.op = "SearchWithContext" /\ ~found.err /\ ~last.err)
        => LET pos == IF found.cq.positiveMinConfidence = 0 THEN 500
                      ELSE found.cq.positiveMinConfidence
               neg == IF found.cq.negativeMaxConfidence = 0 THEN 300
                      ELSE found.cq.negativeMaxConfidence
               ids(g) == {g[i].id : i \in DOMAIN g}
               all == found.results
               uncapped == Len(all) <= (IF found.cq.query.limit = 0 THEN 5
                                        ELSE found.cq.query.limit)
           IN  /\ \A i \in DOMAIN found.Positive : found.Positive[i].pb.confidence >= pos
               /\ \A i \in DOMAIN found.Negative :
                     /\ found.Negative[i].pb.confidence <= neg
                     /\ found.Negative[i].pb.confidence < pos
               /\ \A i \in DOMAIN found.Neutral :
                     /\ found.cq.includeNeutral
                     /\ found.Neutral[i].pb.confidence < pos
                     /\ found.Neutral[i].pb.confidence > neg
               /\ ids(found.Positive) \cap ids(found.Negative) = {}
               /\ ids(found.Positive) \cap ids(found.Neutral) = {}
               /\ ids(found.Negative) \cap ids(found.Neutral) = {}
               /\ ids(found.Positive) \cup ids(found.Negative) \cup ids(found.Neutral)
                     \subseteq ids(all)
               /\ uncapped =>
                     \A i \in DOMAIN all :
                        /\ all[i].pb.confidence >= pos =>
                              all[i].id \in ids(found.Positive)
                        /\ (all[i].pb.confidence < pos /\ all[i].pb.confidence <= neg) =>
                              all[i].id \in ids(found.Negative)
                        /\ (all[i].pb.confidence < pos /\ all[i].pb.confidence > neg
                               /\ found.cq.includeNeutral) =>
                              all[i].id \in ids(found.Neutral)
               /\ (/\ found.cq.positiveMinConfidence = 0
                   /\ found.cq.negativeMaxConfidence = 0
                   /\ found.cq.query.limit = 0
                   /\ Len(all) = 3
                   /\ {<<all[i].pb.successCount, all[i].pb.failureCount>> :
                          i \in DOMAIN all} = {<<9, 1>>, <<1, 9>>, <<7, 3>>})
                  => /\ Len(found.Positive) = 1
                     /\ Len(found.Negative) = 1
                     /\ Len(found.Neutral) = IF found.cq.includeNeutral THEN 1 ELSE 0

C16_Witness ==
    /\ found.op = "SearchWithContext"
    /\ ~found.err
    /\ found.cq.positiveMinConfidence = 0
    /\ found.cq.negativeMaxConfidence = 0
    /\ found.cq.includeNeutral
    /\ found.cq.query.confidenceWeight = 500
    /\ Len(found.Positive) = 1
    /\ Len(found.Negative) = 1
    /\ Len(found.Neutral) = 1
    /\ found.results[1].id = found.Negative[1].id

\* C17: SearchWithContext runs Search with three times the caller's limit (5
\* when the limit is 0) and MinScore 0; each group of a call that returns
\* holds at most the caller's limit of entries, the first ones of its kind in
\* the order Search returned.
C17_ExpandedLimitAndCap ==
    found.op = "SearchWithContext"
        => LET limit == IF found.cq.query.limit = 0 THEN 5 ELSE found.cq.query.limit
               pos == IF found.cq.positiveMinConfidence = 0 THEN 500
                      ELSE found.cq.positiveMinConfidence
               neg == IF found.cq.negativeMaxConfidence = 0 THEN 300
                      ELSE found.cq.negativeMaxConfidence
               First(rs) == [i \in 1..(IF Len(rs) < limit THEN Len(rs) ELSE limit) |-> rs[i]]
               positive == SelectSeq(found.results, LAMBDA r : r.pb.confidence >= pos)
               negative == SelectSeq(found.results,
                                     LAMBDA r : r.pb.confidence < pos /\ r.pb.confidence <= neg)
               neutral == SelectSeq(found.results,
                                    LAMBDA r : r.pb.confidence < pos /\ r.pb.confidence > neg)
           IN  /\ found.query.limit = 3 * limit
               /\ found.query.minScore = 0
               /\ found.query = [found.cq.query EXCEPT !.limit = 3 * limit, !.minScore = 0]
               /\ limit > 0 => Len(found.hits) <= 3 * limit
               /\ ~last.err
                     => /\ Len(found.Positive) <= limit
                        /\ Len(found.Negative) <= limit
                        /\ Len(found.Neutral) <= limit
                        /\ found.Positive = First(positive)
                        /\ found.Negative = First(negative)
                        /\ found.Neutral = IF found.cq.includeNeutral THEN First(neutral)
                                           ELSE << >>

C17_Witness ==
    /\ found.op = "SearchWithContext"
    /\ ~found.err
    /\ found.cq.query.limit = 1
    /\ found.cq.query.minScore = 2
    /\ Len(found.results) = 3
    /\ found.hits[3].score = <<1, 1>>
    /\ Len(found.Positive) = 1
    /\ found.Positive[1] = found.results[1]
    /\ found.results[2].pb.confidence >= 500

\* C22 (SpecRecord): a stored execution record stays in the store as it is
\* through every call other than a Delete of its playbook; RecordExecution
\* only adds records.
C22_RecordsAppendOnly ==
    [][\A id \in Ids :
          \A e \in DOMAIN executions[id] :
             \/ last'.op = "Delete" /\ last'.id = id
             \/ /\ e \in DOMAIN executions'[id]
                /\ executions'[id][e] = executions[id][e]]_vars

\* C27 (SpecLife): a Prune changes a playbook only by archiving it, and then
\* the version, the counters, successRate, confidence and the lessons of the
\* playbook are as before; every other playbook is left exactly as it was.
C27_PruneOnlyArchives ==
    [][(last'.op = "Prune")
       => /\ DOMAIN playbooks' = DOMAIN playbooks
          /\ \A id \in DOMAIN playbooks :
                \/ playbooks'[id] = playbooks[id]
                \/ /\ ~playbooks[id].archived
                   /\ playbooks'[id].archived
                   /\ last'.err \/ \E i \in DOMAIN last'.out : last'.out[i] = id
                   /\ playbooks'[id].version = playbooks[id].version
                   /\ playbooks'[id].successCount = playbooks[id].successCount
                   /\ playbooks'[id].failureCount = playbooks[id].failureCount
                   /\ playbooks'[id].successRate = playbooks[id].successRate
                   /\ playbooks'[id].confidence = playbooks[id].confidence
                   /\ playbooks'[id].lessons = playbooks[id].lessons]_vars

\* A Prune has archived a playbook that had a recorded execution and a lesson
\* from a reflection.
C27_Witness ==
    /\ last.op = "Prune"
    /\ ~last.err
    /\ Len(last.out) = 1
    /\ last.out[1] \in DOMAIN playbooks
    /\ playbooks[last.out[1]].archived
    /\ playbooks[last.out[1]].version >= 2
    /\ Len(playbooks[last.out[1]].lessons) >= 1
    /\ playbooks[last.out[1]].successCount >= 1

\* C30 (SpecRecord): after a Create of a playbook passed without a status
\* that returns no error, the stored playbook has the status draft.
C30_CreateDefaultsToDraft ==
    [][\A id \in Ids :
          (/\ CreateCall({Blank}, {"none"}, MaxExec)
           /\ last'.op = "Create" /\ last'.id = id /\ ~last'.err)
              => playbooks'[id].status = StatusDraft]_vars

\* C23 (SpecLife): after a Reindex that returns no error, the index holds
\* for every playbook of the store listing (the playbooks not archived) an
\* entry built from the stored document, and every entry the index held
\* before is still there, the entries of playbooks that are not in the
\* listing included, as they were.
C23_ReindexAdditive ==
    [][(last'.op = "Reindex" /\ ~last'.err)
       => /\ \A id \in DOMAIN playbooks :
                ~playbooks[id].archived
                    => /\ id \in DOMAIN index'
                       /\ index'[id].status = playbooks[id].status
                       /\ index'[id].confidence = playbooks[id].confidence
                       /\ index'[id].successRate = playbooks[id].successRate
                       /\ index'[id].lessons = playbooks[id].lessons
          /\ \A id \in DOMAIN index :
                /\ id \in DOMAIN index'
                /\ (id \notin DOMAIN playbooks \/ playbooks[id].archived)
                       => index'[id] = index[id]]_vars

\* A Reindex has returned and the index still holds the entry of an archived
\* playbook, which the listing leaves out.
C23_Witness ==
    /\ last.op = "Reindex"
    /\ ~last.err
    /\ \E id \in DOMAIN index : id \in DOMAIN playbooks /\ playbooks[id].archived

\* C24, as claimed (Spec): after a Reindex that returns no error the index
\* holds no entry for a playbook that is not in the store, so that a Delete
\* whose index removal failed is made good.
C24_ReindexRecovers ==
    [][(last'.op = "Reindex" /\ ~last'.err)
       => \A id \in Ids : id \notin DOMAIN playbooks => id \notin DOMAIN index']_vars

\* C24, amended (Spec): a Reindex that returns no error leaves the index entry
\* of a playbook that is no longer in the store where it is, unchanged.
C24_ReindexKeepsStaleEntry ==
    [][(last'.op = "Reindex" /\ ~last'.err)
       => \A id \in DOMAIN index :
             id \notin DOMAIN playbooks
                 => id \in DOMAIN index' /\ index'[id] = index[id]]_vars

\* A Reindex has returned after a Delete whose index removal failed: the
\* playbook is out of the store and its entry is in the index.
C24_Witness ==
    /\ last.op = "Reindex"
    /\ ~last.err
    /\ \E id \in DOMAIN index : id \notin DOMAIN playbooks

\* C25 (SpecReflect): a RecordExecution that gets past its own saves returns
\* no error, whatever happens to the reflection, and leaves the record and
\* the incremented counters in the store. With auto-reflection on and a
\* reflection that asks for an update, it goes on to ApplyReflection: when
\* that succeeds the playbook has the new lesson and the next version on top
\* of the new counters. With auto-reflection off, or a reflection that does
\* not ask for an update, or none, no lesson is added.
C25_AutoReflect ==
    [][\A id \in Ids :
          (/\ id \in DOMAIN playbooks
           /\ last'.op = "RecordExecution"
           /\ last'.id = id
           /\ last'.fail \notin {"exec", "store", "index"})
              => LET old == playbooks[id]
                     new == playbooks'[id]
                     lesson == [content |-> "a", confidence |-> 500]
                 IN  /\ ~last'.err
                     /\ 1 \in DOMAIN executions'[id]
                     /\ new.successCount + new.failureCount
                           = old.successCount + old.failureCount + 1
                     /\ new.successCount \in {old.successCount, old.successCount + 1}
                     /\ last'.fail # "none" => autoReflect
                     /\ last'.fail \in {"reflect embed", "reflect store"}
                           => new.lessons = old.lessons /\ new.version = old.version
                     /\ (ReflectRecordReflecting /\ autoReflect /\ last'.fail = "none")
                           => /\ new.lessons = Append(old.lessons, lesson)
                              /\ new.version = old.version + 1
                              /\ index'[id].lessons = new.lessons
                     /\ (ReflectRecordPlain \/ ~autoReflect)
                           => new.lessons = old.lessons /\ new.version = old.version]_vars

\* A RecordExecution has returned no error although its ApplyReflection
\* failed at the store: the execution is counted and recorded, no lesson is
\* added.
C25_Witness ==
    /\ last.op = "RecordExecution"
    /\ last.fail = "reflect store"
    /\ ~last.err
    /\ autoReflect
    /\ last.id \in DOMAIN playbooks
    /\ playbooks[last.id].successCount + playbooks[last.id].failureCount = 2
    /\ 1 \in DOMAIN executions[last.id]
    /\ Len(playbooks[last.id].lessons) = 1

\* C26 (SpecReflect): an ApplyReflection with k improvements that returns no
\* error leaves the playbook with its earlier lessons, unchanged, followed by
\* one lesson per improvement, in order, each with confidence 0.5; the version
\* is one more and the counters are as before.
C26_ReflectionAppends ==
    [][\A id \in Ids, imp \in Improvements :
          (/\ id \in DOMAIN playbooks
           /\ ApplyReflectionCall({Reflection(su, imp) : su \in BOOLEAN}, {"none"}, MaxRecorded)
           /\ last'.op = "ApplyReflection"
           /\ last'.id = id)
              => LET old == playbooks[id]
                     new == playbooks'[id]
                 IN  /\ ~last'.err
                     /\ Len(new.lessons) = Len(old.lessons) + Len(imp)
                     /\ \A i \in 1..Len(old.lessons) : new.lessons[i] = old.lessons[i]
                     /\ \A i \in 1..Len(imp) :
                           /\ new.lessons[Len(old.lessons) + i].content = imp[i]
                           /\ new.lessons[Len(old.lessons) + i].confidence = 500
                     /\ new.version = old.version + 1
                     /\ new.successCount = old.successCount
                     /\ new.failureCount = old.failureCount]_vars

\* An ApplyReflection with two improvements has added its lessons after the
\* one the playbook had.
C26_Witness ==
    /\ last.op = "ApplyReflection"
    /\ ~last.err
    /\ last.id \in DOMAIN playbooks
    /\ playbooks[last.id].version = 3
    /\ Len(playbooks[last.id].lessons) = 3
    /\ playbooks[last.id].lessons[2].content = "a"
    /\ playbooks[last.id].lessons[3].content = "b"

\* C21 (SpecStats): after every Create, Update, RecordExecution,
\* ApplyReflection and Prune that returns no error, each stored playbook has
\* successRate = successCount / (successCount + failureCount) and the Wilson
\* confidence of the same counters, both 0 when it has no counted execution,
\* whatever rate and confidence the caller passed.
C21_StatsDerived ==
    (last.op \in {"Create", "Update", "RecordExecution", "ApplyReflection", "Prune"}
        /\ ~last.err)
        => \A id \in DOMAIN playbooks :
              LET pb == playbooks[id]
                  n == pb.successCount + pb.failureCount
              IN  IF n = 0
                  THEN pb.successRate = <<0, 1>> /\ pb.confidence = 0
                  ELSE /\ pb.successRate[2] > 0
                       /\ pb.successRate[1] * n = pb.successCount * pb.successRate[2]
                       /\ pb.confidence = WilsonConfidence(pb.successCount, pb.failureCount)
                       /\ pb.confidence \in 0..1000

\* An Update has stored a playbook with one success and one failure: its rate
\* is 1/2 and its confidence is neither of the values callers pass.
C21_Witness ==
    /\ last.op = "Update"
    /\ ~last.err
    /\ last.id \in DOMAIN playbooks
    /\ playbooks[last.id].successCount = 1
    /\ playbooks[last.id].failureCount = 1
    /\ playbooks[last.id].successRate = <<1, 2>>
    /\ playbooks[last.id].confidence \notin {0, 900}

\* C28 (SpecList): ListPlaybooks and ListExecutions return no error when
\* files of the directory cannot be read or do not unmarshal; they skip
\* those, and every other document (that matches the filter, for playbooks)
\* is in the result: all of them when they are within the limit or there is
\* no limit, and as many as the limit otherwise.
C28_ListingsSkipDamaged ==
    [][/\ \A filter \in ListFilters :
             ListPlaybooksCall({filter})
                => LET want == {id \in ListIds :
                                   /\ playbookPath(id) \in DOMAIN fsys
                                   /\ fsys[playbookPath(id)].readable
                                   /\ fsys[playbookPath(id)].whole
                                   /\ matchesFilter(fsys[playbookPath(id)].v, filter)}
                       got == {last'.out[i] : i \in DOMAIN last'.out}
                   IN  /\ ~last'.err
                       /\ got \subseteq want
                       /\ Cardinality(got) = Len(last'.out)
                       /\ (filter.limit = 0 \/ Cardinality(want) <= filter.limit)
                             => got = want
                       /\ (filter.limit > 0 /\ Cardinality(want) > filter.limit)
                             => Len(last'.out) = filter.limit
       /\ \A limit \in {0, 1} :
             ListExecutionsCall({1}, {limit})
                => LET want == {e \in ListExecIds :
                                   /\ executionPath(1, e) \in DOMAIN fsys
                                   /\ fsys[executionPath(1, e)].readable
                                   /\ fsys[executionPath(1, e)].whole}
                       got == {last'.out[i] : i \in DOMAIN last'.out}
                   IN  /\ ~last'.err
                       /\ got \subseteq want
                       /\ Cardinality(got) = Len(last'.out)
                       /\ (limit = 0 \/ Cardinality(want) <= limit) => got = want
                       /\ (limit > 0 /\ Cardinality(want) > limit)
                             => Len(last'.out) = limit]_vars

\* ListPlaybooks has returned playbooks 1 and 3 from a directory whose file
\* of playbook 2, between them, does not unmarshal.
C28_Witness ==
    /\ last.op = "ListPlaybooks"
    /\ ~last.err
    /\ {last.out[i] : i \in DOMAIN last.out} = {1, 3}
    /\ playbookPath(2) \in DOMAIN fsys
    /\ ~fsys[playbookPath(2)].whole

\* C29 (SpecList), as stated: ListPlaybooks with a Status in its filter (and
\* no limit, archived playbooks included) returns exactly the stored
\* playbooks that have this status.
C29_StatusFilter ==
    [][\A filter \in ListFilters :
          (/\ filter.status # NoStatus
           /\ filter.limit = 0
           /\ filter.includeArchived
           /\ ListPlaybooksCall({filter}))
              => {last'.out[i] : i \in DOMAIN last'.out}
                    = {id \in ListIds :
                          /\ playbookPath(id) \in DOMAIN fsys
                          /\ Decodes(fsys, playbookPath(id))
                          /\ fsys[playbookPath(id)].v.status = filter.status}]_vars

\* C31 (SpecWilson): WilsonConfidence penalises small samples: with no
\* execution the confidence is 0; with one success and no failure it is
\* about 0.21 (0.205 up to 0.215), not 1.0; and the confidence of 95
\* successes and 5 failures is above that of the single success.
C31_SmallSamplesPenalised ==
    \A id \in DOMAIN playbooks :
        LET pb == playbooks[id]
        IN  /\ (pb.successCount = 0 /\ pb.failureCount = 0) => pb.confidence = 0
            /\ (pb.successCount = 1 /\ pb.failureCount = 0)
                  => pb.confidence \in 205..214 /\ pb.confidence # 1000
            /\ (pb.successCount = LargeHistory.successCount
                   /\ pb.failureCount = LargeHistory.failureCount)
                  => /\ pb.confidence > Counted(1, 0).confidence
                     /\ pb.confidence > 214

\* The playbook has one success and no failure, and a confidence of 0.206.
C31_Witness ==
    /\ last.op = "UpdateStats"
    /\ \E id \in DOMAIN playbooks :
          /\ playbooks[id].successCount = 1
          /\ playbooks[id].failureCount = 0
          /\ playbooks[id].confidence = 206

\* C32 (SpecWilson): one more success at the same number of failures gives a
\* strictly higher confidence, for all counts within the bounds; the
\* confidence of 10 successes and 5 failures is above that of 5 and 5.
C32_MoreSuccessesRaise ==
    [][\A id \in DOMAIN playbooks :
          /\ (/\ playbooks'[id].successCount = playbooks[id].successCount + 1
              /\ playbooks'[id].failureCount = playbooks[id].failureCount)
                => playbooks'[id].confidence > playbooks[id].confidence
          /\ (playbooks'[id].successCount = 10 /\ playbooks'[id].failureCount = 5)
                => playbooks'[id].confidence > Counted(5, 5).confidence]_vars

\* A success has taken the playbook to 10 successes and 5 failures.
C32_Witness ==
    /\ last.op = "UpdateStats"
    /\ last.out = <<OutcomeSuccess>>
    /\ \E id \in DOMAIN playbooks :
          /\ playbooks[id].successCount = 10
          /\ playbooks[id].failureCount = 5
          /\ playbooks[id].confidence = 417

C36_NoOrphanRecords ==
    [][\A id \in Ids :
          (/\ last'.op = "RecordExecution"
           /\ last'.id = id
           /\ id \notin DOMAIN playbooks)
              => /\ last'.err
                 /\ executions'[id] = executions[id]]_vars

\* C37 (SpecLife), as stated: a playbook that Prune has archived and taken
\* out of the index stays out of the index, and so out of the results of
\* Search, whatever RecordExecution, ApplyReflection or Reindex follows.
C37_ArchivedStaysUnindexed ==
    [][\A id \in DOMAIN playbooks :
          (/\ playbooks[id].archived
           /\ id \notin DOMAIN index
           /\ last'.op \in {"RecordExecution", "ApplyReflection", "Reindex"})
              => id \notin DOMAIN index']_vars

\* C39 (SpecSearch), as stated: a SearchWithContext whose Limit is zero or
\* negative, and whose search meets no error, returns normally, and each of
\* its groups holds at most the default limit of 5 entries.
C39_ContextLimitDefaults ==
    [][(/\ found'.op = "SearchWithContext"
        /\ found'.cq.query.limit <= 0
        /\ last'.fail \in {"none", "embed", "panic"})
          => /\ ~last'.err
             /\ Len(found'.Positive) <= DefaultSearchLimit
             /\ Len(found'.Negative) <= DefaultSearchLimit
             /\ Len(found'.Neutral) <= DefaultSearchLimit]_vars

\* C34 (SpecRace), as stated: when the RecordExecution calls for a playbook,
\* interleaved with each other and with Prune sweeps, have all returned
\* without error, the stored successCount + failureCount has grown by the
\* number of those calls.
C34_NoExecutionLost ==
    \A id \in DOMAIN playbooks :
        (/\ \A p \in Racers : procs[p].pc = "idle"
         /\ deleted[id] = "no"
         /\ RaceReturned = RaceStarted)
            => playbooks[id].successCount + playbooks[id].failureCount = RaceReturned

\* C35 (SpecRace), as stated: once Delete(id) has returned without error,
\* and with no later Create, the store holds no playbook document and no
\* execution record of id and the index no entry for it, also when a
\* RecordExecution or a Prune of id was in flight during the Delete.
C35_DeletedStaysDeleted ==
    \A id \in Ids :
        deleted[id] = "yes"
            => /\ id \notin DOMAIN playbooks
               /\ executions[id] = NoExecutions
               /\ id \notin DOMAIN index

\* C38 (SpecStoreFair): no goroutine holds the store lock while it asks for
\* it again or waits for another goroutine, and under fair scheduling every
\* store call that has started returns: the manager calls, which are finite
\* sequences of store calls made without the lock held in between, return.
C38_EveryCallReturns ==
    \A p \in Procs : (procs[p].pc # "idle") ~> (procs[p].pc = "idle")

\* A goroutine waits in Lock while another goroutine holds the lock as a
\* reader.
C38_Witness ==
    \E p, q \in Procs :
        /\ procs[p].pc = "lock"
        /\ procs[p].op \in WriteOps
        /\ q \in rw.readers
        /\ p \in rw.waiting

====
